---- MODULE Spec2Model ----
(***************************************************************************)
(* Offline-sync store of the RunTime interval timer.                       *)
(*                                                                         *)
(* The model covers the local IndexedDB store (lib/storage), the           *)
(* useSupabaseSync hook (connectivity state, syncSessions, the auto-sync   *)
(* effect) and the App component's callers of syncSessions (the app-load   *)
(* effect and handleFinishWorkout).                                        *)
(*                                                                         *)
(* A syncSessions() call is an "attempt".  Its body is an inner async      *)
(* function (syncPromise) raced against a 30 s timer; the attempt record   *)
(* keeps the position of the inner function (pc) and whether the call is   *)
(* still waiting on the race (waiting).  The record of an attempt is       *)
(* dropped when its inner function ends; the variable last then holds, for *)
(* one state, how it ended and what syncSessions() returned.               *)
(* Local IndexedDB requests are taken to complete well inside the 30 s     *)
(* window, so the timer can only win the race while a remote call is       *)
(* outstanding.                                                            *)
(*                                                                         *)
(* Spec and FairSpec are the App with the hook.  StoreSpec is lib/storage   *)
(* called directly, one readwrite transaction at a time, with requests     *)
(* that may fail.  TrackerSpec is one GPSTracker with the callbacks of its  *)
(* location subscriptions, and MetricsSpec its calculations on longer      *)
(* tracks.  TimerSpec is TimerScreen with its tracker: every handler is    *)
(* one step, taken with the renders and effects that follow it.  PanelSpec *)
(* is the GPS test panel of SetupScreen.  WorkoutSpec is TimerScreen       *)
(* without GPS, with the page hidden and shown and the App rendering       *)
(* again.                                                                  *)
(***************************************************************************)
EXTENDS Integers, Sequences, FiniteSets, TLC

\* Number of workouts that may be finished in one run of the model.
MaxWorkouts == 2

\* Number of syncSessions() calls whose inner function may run at one time.
MaxAttempts == 2

\* Number of rows the remote table workout_sessions may hold.
MaxRemote == 2

\* Number of saveSession calls that may commit in a run of direct storage calls.
MaxSaves == 2

\* Length of the id list handed to markSessionsSynced.
MaxIds == 2

\* Largest distance (in metres) of a session handed to saveSession.
MaxDistance == 1

\* Number of fixes a track may hold.
MaxFixes == 3

\* Number of location subscriptions a GPSTracker may open in a run.
MaxStarts == 2

\* Largest longitude of a fix, in degrees along the equator.
MaxLongitude == 1

\* Largest timestamp of a fix.
MaxTimestamp == 1

\* Number of fixes of the tracks the calculations are applied to.
MaxTrack == 6

\* Largest run time, walk time (in seconds) and number of rounds of a workout.
MaxRunTime == 2

MaxWalkTime == 1

MaxRounds == 2

\* Largest number of seconds TimerScreen counts as run and walked, number of
\* fixes delivered to its tracker, and number of its calls of onFinish.
MaxSpent == 6

\* Number of times the pause button of TimerScreen is pressed.
MaxToggles == 2

\* Number of ticks and presses of buttons between a call of onFinish and the
\* finish screen.
MaxLate == 1

MaxTimerFixes == 2

MaxFinishes == 2

\* Number of times the App re-renders with TimerScreen mounted, number of times
\* the page is hidden during a workout, and the largest number of whole
\* seconds it stays hidden.
MaxParentRenders == 1

MaxHides == 1

MaxMissed == 1

\* Largest duration of a simulation of the GPS test panel, in seconds, and
\* the number of simulations it runs.
MaxDuration == 5

MaxSimulations == 1

VARIABLES
    isOnline,        \* useSupabaseSync: React state isOnline
    isSyncing,       \* useSupabaseSync: React state isSyncing
    renderedOnline,  \* isOnline as seen by the last committed render
    att,             \* the syncSessions() calls that are running
    localSessions,   \* object store 'sessions'
    localGps,        \* object store 'gps_tracks'
    nextId,          \* key generator of the 'sessions' store
    now,             \* number of workouts finished (stands for the clock)
    remoteSessions,  \* table workout_sessions (row i has remote id i)
    remoteGps,       \* table gps_tracks
    hf,              \* the running handleFinishWorkout call
    last,            \* what the step just taken made a syncSessions() call do
    tx,              \* lib/storage: the readwrite transaction that is open
    ret,             \* lib/storage: how the last storage call ended
    saved,           \* lib/storage: the calls of saveSession that resolved
    watchId,         \* GPSTracker.watchId (0 stands for null)
    points,          \* GPSTracker.points
    isTracking,      \* GPSTracker.isTracking
    onUpdate,        \* GPSTracker.onUpdate: whether an observer was passed
    geolocation,     \* navigator.geolocation: its watches and their callbacks
    tlast,           \* what the last GPSTracker call or callback did
    timer,           \* TimerScreen: its React state and refs
    panel,           \* GPSTestPanel: its React state and refs
    saveCalls        \* the calls of saveSession made by the App and the panel

\* The variables of the hook and the App, of direct calls of lib/storage and
\* of a GPSTracker instance.
syncVars == << isOnline, isSyncing, renderedOnline, att, now, remoteSessions,
               remoteGps, hf, last >>

storeVars == << tx, ret, saved >>

trackerVars == << watchId, points, isTracking, onUpdate, geolocation, tlast >>

screenVars == << timer, panel, saveCalls >>

\* Everything but the GPSTracker.
appVars == << syncVars, storeVars, localSessions, localGps, nextId,
              screenVars >>

\* Everything but TimerScreen, its tracker and the calls of saveSession.
outsideTimer == << syncVars, storeVars, localSessions, localGps, nextId,
                  panel >>

\* Everything but GPSTestPanel, its tracker and the calls of saveSession.
outsidePanel == << syncVars, storeVars, localSessions, localGps, nextId,
                  timer >>

vars == << isOnline, isSyncing, renderedOnline, att, localSessions,
           localGps, nextId, now, remoteSessions, remoteGps, hf, last,
           tx, ret, saved, watchId, points, isTracking, onUpdate, geolocation,
           tlast, timer, panel, saveCalls >>

Attempts == 1..MaxAttempts

----------------------------------------------------------------------------
\* Helpers on sets and sequences

RECURSIVE SortedIds(_)
\* The keys of a set of ids in ascending order, as getAll() returns records.
SortedIds(S) ==
    IF S = {} THEN << >>
    ELSE LET m == CHOOSE x \in S : \A y \in S : x <= y
         IN << m >> \o SortedIds(S \ {m})

Range(s) == { s[i] : i \in DOMAIN s }

----------------------------------------------------------------------------
\* lib/storage: the IndexedDB store

\* A stored session: the key, the date stamp (which stands for the uploaded
\* columns) and the sync flag.
SessionRecord(id, date) == [id |-> id, date |-> date, synced |-> 0]

\* GpsRecord with the key of the session left out.
GpsRecordUnkeyed(sessionId, gpsPoints) == [sessionId |-> 0, points |-> gpsPoints]

\* A stored GPS track; its points are a non-empty list, named by the stamp.
GpsRecord(sessionId, gpsPoints) == [sessionId |-> sessionId, points |-> gpsPoints]

\* getAll(STORE_NAME): every session record, in key order.
GetAllSessions(sessions) ==
    LET ids == SortedIds({ s.id : s \in sessions })
    IN [ i \in 1..Len(ids) |-> CHOOSE s \in sessions : s.id = ids[i] ]

\* get(GPS_STORE_NAME, id)?.points; 0 stands for undefined.
GetGpsPoints(gps, id) ==
    IF \E g \in gps : g.sessionId = id
    THEN (CHOOSE g \in gps : g.sessionId = id).points
    ELSE 0

\* clearSessions: what is left of a store after clear().
ClearStore(store) == {}

\* An optional field or argument is the empty set when it is undefined and
\* the set of its value otherwise.
None == {}

Some(v) == {v}

TheValue(o) == CHOOSE v \in o : TRUE

\* SessionWithSync with the synced flag of the input kept.
SessionWithSyncKept(session) ==
    [ date |-> session.date,
      distance |-> IF session.distance = None THEN 0
                   ELSE TheValue(session.distance),
      synced |-> IF session.synced = None THEN 0 ELSE TheValue(session.synced) ]

\* saveSession: sessionWithSync, the input with distance defaulted to 0 and
\* synced overwritten with 0.
SessionWithSync(session) ==
    [ date |-> session.date,
      distance |-> IF session.distance = None THEN 0
                   ELSE TheValue(session.distance),
      synced |-> 0 ]

\* The record add(sessionWithSync) stores under the generated key.
StoredSession(id, sessionWithSync) ==
    [ id |-> id, date |-> sessionWithSync.date,
      distance |-> sessionWithSync.distance, synced |-> sessionWithSync.synced ]

\* saveSession: if (gpsPoints && gpsPoints.length > 0).
HasPoints(gpsPoints) == gpsPoints # None /\ Len(TheValue(gpsPoints)) > 0

\* getSessions: getAll(STORE_NAME), in key order.
GetSessions(sessions) == GetAllSessions(sessions)

\* getUnsyncedSessions: index('synced').getAll(0), in key order.
GetUnsyncedSessions(sessions) ==
    GetAllSessions({ s \in sessions : s.synced = 0 })

\* tx.store.get(id): the set of the record stored under id (empty if none).
GetSession(sessions, id) == { s \in sessions : s.id = id }

\* MarkSynced with every record of the store put back as synced.
MarkSyncedAll(sessions, id) == { [s EXCEPT !.synced = 1] : s \in sessions }

\* MarkSynced with the flag flipped instead of set.
MarkSyncedFlips(sessions, id) ==
    { IF s.id = id THEN [s EXCEPT !.synced = 1 - @] ELSE s : s \in sessions }

\* markSessionsSynced, one turn of the loop: the record under id, if there is
\* one, is put back with synced = 1.
MarkSynced(sessions, id) ==
    { IF s.id = id THEN [s EXCEPT !.synced = 1] ELSE s : s \in sessions }

\* What a transaction leaves in a store: its working copy when it commits,
\* the store as it was when it aborts.
Committed(store, working) == working

\* Aborted without the writes of the transaction being undone.
AbortedKeepsWrites(store, working) == working

Aborted(store, working) == store

\* FailureOutcome with the error swallowed.
FailureOutcomeSwallowed(pc) == "resolved"

\* How a call ends whose awaited request, at position pc, fails: no call of
\* lib/storage catches the error, so its promise rejects.
FailureOutcome(pc) == "rejected"

\* No readwrite transaction is open.
NoTx ==
    [ op |-> "none", pc |-> "none", sessions |-> {}, gps |-> {}, nextId |-> 0,
      session |-> None, points |-> None, ids |-> << >>, todo |-> << >>,
      sessionId |-> 0 ]

\* No storage call has ended in the step just taken.
NoReturn ==
    [ op |-> "none", result |-> "none", value |-> None, session |-> None,
      points |-> None, ids |-> << >>, failedAt |-> "none",
      sessionsBefore |-> {}, gpsBefore |-> {}, savedBefore |-> {} ]

----------------------------------------------------------------------------
\* useSupabaseSync.syncSessions

\* A record that holds no running call.
NoAttempt ==
    [ pc |-> "idle", by |-> "none", waiting |-> FALSE, all |-> << >>,
      gps |-> << >>, uploaded |-> << >>, gpsRes |-> "none" ]

\* The record of a call whose inner function has ended: it is free again.
DoneAttempt == NoAttempt

\* Whether the call has passed the isOnline test and not yet returned.
InFlight(r) == r.waiting

\* Whether the inner async function is still running.
InnerRunning(r) == r.pc # "idle"

\* No call returned and no inner function ended in the step just taken.
NoEvent ==
    [ kind |-> "none", a |-> 0, rec |-> NoAttempt, upRes |-> "none",
      gpsRes |-> "none", inner |-> "none", returned |-> "none",
      timedOut |-> FALSE, cleared |-> FALSE, from |-> "none" ]

\* SyncSessionsCall with the isOnline test inverted.
SyncSessionsCallInverted(online, by) ==
    IF online
    THEN DoneAttempt
    ELSE [ NoAttempt EXCEPT !.pc = "getAll", !.by = by, !.waiting = TRUE ]

\* syncSessions(), up to its first await.  online is the isOnline of the
\* closure.
SyncSessionsCall(online, by) ==
    IF ~online
    THEN DoneAttempt
    ELSE [ NoAttempt EXCEPT !.pc = "getAll", !.by = by, !.waiting = TRUE ]

\* allSessionsWithGPS.filter(synced === 0).map(session): positions kept.
UnsyncedIdx(all) == { i \in DOMAIN all : all[i].synced = 0 }

RECURSIVE SubSeqOf(_, _, _)
\* The elements of s at the positions of idx from i on, in order.
SubSeqOf(s, idx, i) ==
    IF i > Len(s) THEN << >>
    ELSE (IF i \in idx THEN << s[i] >> ELSE << >>) \o SubSeqOf(s, idx, i + 1)

UnsyncedSessions(all) == SubSeqOf(all, UnsyncedIdx(all), 1)

\* sessionsToUpload: the uploaded columns of each unsynced session (no id).
SessionsToUpload(unsynced) ==
    [ i \in DOMAIN unsynced |-> [date |-> unsynced[i].date] ]

\* The remote ids insert(...).select('id') returns for n rows appended to a
\* table of m rows.
InsertedIds(m, n) == [ i \in 1..n |-> m + i ]

\* FindPoints with the pair taken by position 0 instead of by session id.
FindPointsFirst(r, id) == IF Len(r.gps) = 0 THEN 0 ELSE r.gps[1]

\* allSessionsWithGPS.find(session.id === id)?.gpsPoints; 0 when absent.
FindPoints(r, id) ==
    IF \E i \in DOMAIN r.all : r.all[i].id = id
    THEN r.gps[CHOOSE i \in DOMAIN r.all :
                  r.all[i].id = id /\ \A j \in DOMAIN r.all :
                                         r.all[j].id = id => i <= j]
    ELSE 0

\* gpsTracksToUpload: one track per uploaded session that has points.
GpsTracksToUpload(r) ==
    LET unsynced == UnsyncedSessions(r.all)
    IN { [session_id |-> r.uploaded[i],
          points |-> FindPoints(r, unsynced[i].id)] :
            i \in { j \in DOMAIN r.uploaded :
                       FindPoints(r, unsynced[j].id) # 0 } }

\* What syncSessions() returns when the race is won by the inner promise:
\* the value of the inner promise is dropped.
OuterResult(innerResult) ==
    IF innerResult = "rejected" THEN "false" ELSE "true"

\* The inner promise of call a settles with innerResult, r being the record
\* of the call at that moment: if syncSessions() is still waiting on the race
\* it returns OuterResult, otherwise it has returned false on the timeout.
SettleEvent(a, r, upRes, innerResult, cleared) ==
    [ kind |-> "settle", a |-> a, rec |-> r, upRes |-> upRes,
      gpsRes |-> r.gpsRes, inner |-> innerResult,
      returned |-> IF InFlight(r) THEN OuterResult(innerResult) ELSE "none",
      timedOut |-> ~InFlight(r), cleared |-> cleared, from |-> "none" ]

\* AfterFinally without the finally block.
AfterFinallySkipped(r, syncing) == syncing

\* isSyncing after a step in which the inner promise of r settled: the
\* finally block runs if the call was still waiting.
AfterFinally(r, syncing) == IF InFlight(r) THEN FALSE ELSE syncing

----------------------------------------------------------------------------
\* lib/gps: GPSTracker

\* A GPSPoint: the fixes lie on the equator, where the haversine distance of
\* two points is the radius times the difference of their longitudes, so the
\* distances are counted in degrees of arc.
GPSPoints == [ longitude : 0..MaxLongitude, timestamp : 0..MaxTimestamp ]

\* The fixes delivered to the tracker of a screen: what the screens keep of a
\* track does not depend on the timestamps.
TimerFixes == { p \in GPSPoints : p.timestamp = 0 }

Abs(x) == IF x < 0 THEN -x ELSE x

\* haversineDistance, for two points of the equator.
HaversineDistance(point1, point2) == Abs(point2.longitude - point1.longitude)

\* A quotient num / den that the code computes in floating point.
Ratio(num, den) == [ num |-> num, den |-> den ]

Zero == Ratio(0, 1)

\* Math.max that keeps its second argument.
RatioLast(r, s) == s

\* Math.max of two quotients with positive denominators.
RatioMax(r, s) == IF s.num * r.den > r.num * s.den THEN s ELSE r

RECURSIVE DistanceFrom(_, _)
\* The loop of calculateTotalDistance from index i on.
DistanceFrom(pts, i) ==
    IF i > Len(pts) THEN 0
    ELSE HaversineDistance(pts[i - 1], pts[i]) + DistanceFrom(pts, i + 1)

\* calculateTotalDistance as the distance from the first point straight to the
\* last one.
CalculateTotalDistanceDirect(pts) ==
    IF Len(pts) < 2 THEN 0 ELSE HaversineDistance(pts[1], pts[Len(pts)])

\* calculateTotalDistance.
CalculateTotalDistance(pts) ==
    IF Len(pts) < 2 THEN 0 ELSE DistanceFrom(pts, 2)

\* calculateAveragePace with the distance from the first point straight to
\* the last one.
CalculateAveragePaceDirect(pts) ==
    IF Len(pts) < 2 THEN Zero
    ELSE IF HaversineDistance(pts[1], pts[Len(pts)]) = 0 THEN Zero
    ELSE Ratio(pts[Len(pts)].timestamp - pts[1].timestamp,
               60 * HaversineDistance(pts[1], pts[Len(pts)]))

\* calculateAveragePace: the minutes from the first point to the last one
\* (timestamp / 1000 / 60) over the kilometres of the total distance
\* (distance / 1000), 0 when there is no distance.
CalculateAveragePace(pts) ==
    IF Len(pts) < 2 THEN Zero
    ELSE IF CalculateTotalDistance(pts) = 0 THEN Zero
    ELSE Ratio(pts[Len(pts)].timestamp - pts[1].timestamp,
               60 * CalculateTotalDistance(pts))

RECURSIVE MaxSpeedFrom(_, _, _)
\* The loop of calculateMaxSpeed from index i on, maxSpeed being the maximum
\* so far: kilometres (distance / 1000) over hours (timestamp / 1000 / 3600).
MaxSpeedFrom(pts, i, maxSpeed) ==
    IF i > Len(pts) THEN maxSpeed
    ELSE LET distance == HaversineDistance(pts[i - 1], pts[i])
             time == pts[i].timestamp - pts[i - 1].timestamp
         IN MaxSpeedFrom(pts, i + 1,
                IF time > 0
                THEN RatioMax(maxSpeed, Ratio(3600 * distance, time))
                ELSE maxSpeed)

\* calculateMaxSpeed.
CalculateMaxSpeed(pts) ==
    IF Len(pts) < 2 THEN Zero ELSE MaxSpeedFrom(pts, 2, Zero)

\* The number of points getCurrentPace looks at.
PaceWindow == 5

\* All the points instead of the recent ones.
RecentPointsAll(pts) == pts

\* this.points.slice(-PaceWindow).
RecentPoints(pts) ==
    IF Len(pts) <= PaceWindow THEN pts
    ELSE SubSeq(pts, Len(pts) - PaceWindow + 1, Len(pts))

\* getCurrentPace: minutes per kilometre from the first of the recent points
\* straight to the last one, 0 when there is no distance.
GetCurrentPace(pts) ==
    IF Len(pts) < 2 THEN Zero
    ELSE LET recentPoints == RecentPoints(pts)
             distance == HaversineDistance(recentPoints[1],
                                           recentPoints[Len(recentPoints)])
             time == recentPoints[Len(recentPoints)].timestamp
                       - recentPoints[1].timestamp
         IN IF Len(recentPoints) < 2 THEN Zero
            ELSE IF distance = 0 THEN Zero
            ELSE Ratio(time, 60 * distance)

\* The GPSTrack stopTracking returns for the points pts.
GPSTrack(pts) ==
    [ points |-> pts,
      totalDistance |-> CalculateTotalDistance(pts),
      averagePace |-> CalculateAveragePace(pts),
      maxSpeed |-> CalculateMaxSpeed(pts) ]

\* A returned array that is the tracker's own.
SameArray(pts) == [ items |-> pts, shared |-> TRUE ]

\* [...this.points]: a new array of the same points.
CopyOf(pts) == [ items |-> pts, shared |-> FALSE ]

\* No GPSTracker call or callback ran in the step just taken.  Four fields
\* are kept from step to step: delivered, the fixes delivered since the
\* tracker was constructed or last opened a subscription, fixes, their number,
\* lastReported, the distance the observer was last told since then, and
\* stopped, whether stopTracking has returned since then.
NoCall ==
    [ op |-> "none", outcome |-> "none", track |-> GPSTrack(<< >>),
      watch |-> 0, point |-> [longitude |-> 0, timestamp |-> 0],
      observer |-> << >>, value |-> Zero, returned |-> CopyOf(<< >>),
      wasTracking |-> FALSE, wasStopped |-> FALSE, fixes |-> 0,
      stopped |-> FALSE, delivered |-> << >>, lastReported |-> 0 ]

\* ClearWatch with the subscription left open.
ClearWatchIgnored(watches, id) == watches

\* navigator.geolocation.clearWatch(id).
ClearWatch(watches, id) == watches \ {id}

\* startTracking with the test of isTracking left out.
AlreadyTrackingIgnored(tracking) == FALSE

\* startTracking: if (this.isTracking).
AlreadyTracking(tracking) == tracking

\* The success callback with the promise left as it is.
AfterFixIgnored(status, n) == status

\* The promise of startTracking after the success callback has pushed the
\* n-th point: resolve() settles a pending promise only.
AfterFix(status, n) ==
    IF n = 1 /\ status = "pending" THEN "resolved" ELSE status

\* The error callback with the promise left as it is.
AfterErrorIgnored(status, n) == status

\* The promise of startTracking after the error callback has run with n
\* points recorded: reject() settles a pending promise only.
AfterError(status, n) ==
    IF n = 0 /\ status = "pending" THEN "rejected" ELSE status

\* The calls of the observer the success callback makes for the point.
OnUpdate(registered, point, totalDistance) ==
    IF registered
    THEN << [ point |-> point, totalDistance |-> totalDistance ] >>
    ELSE << >>

\* navigator.geolocation with the subscriptions ws open: started[w] is the
\* state of the promise that the callbacks of subscription w settle, first[w]
\* the first event delivered to w, and errors the subscriptions an error was
\* delivered to.
Geolocation(s, ws, next, started, first, errors) ==
    [ supported |-> s, watches |-> ws, nextWatchId |-> next,
      started |-> started, first |-> first, errors |-> errors ]

\* A GPSTracker as constructed, navigator.geolocation being present or not as
\* drawn from supported, and an observer being passed or not as drawn from
\* observers.
TrackerInit(supported, observers) ==
    /\ watchId = 0
    /\ points = << >>
    /\ isTracking = FALSE
    /\ onUpdate \in observers
    /\ \E s \in supported :
          geolocation = Geolocation(s, {}, 1,
                                    [w \in 1..MaxStarts |-> "none"],
                                    [w \in 1..MaxStarts |-> "none"], {})
    /\ tlast = NoCall

----------------------------------------------------------------------------
\* State after the App component is constructed and before its first commit

Seen(online) == IF online THEN "yes" ELSE "no"

\* The calls that are not yet made but are already due: the two effects of a
\* pending commit and the call handleFinishWorkout makes once its save is done.
Reserved(online, rendered, h) ==
    (IF online /\ rendered # Seen(online) THEN 2 ELSE 0)
      + (IF h.pc = "saving" /\ h.online THEN 1 ELSE 0)

HfIdle == [pc |-> "idle", online |-> FALSE, gps |-> FALSE, date |-> 0, a |-> 0]

\* The hook, the App and the local store.
AppInit ==
    /\ isOnline \in BOOLEAN              \* useState(navigator.onLine)
    /\ isSyncing = FALSE
    /\ renderedOnline = "none"
    /\ att = [a \in Attempts |-> NoAttempt]
    /\ localSessions = {}
    /\ localGps = {}
    /\ nextId = 1
    /\ now = 0
    /\ remoteSessions = << >>
    /\ remoteGps = {}
    /\ hf = HfIdle
    /\ last = NoEvent
    /\ tx = NoTx
    /\ ret = NoReturn
    /\ saved = {}

\* useState(3) of timeLeft, and setTimeLeft(3) when a walk phase ends.
Countdown == 3

\* The configurations SetupScreen can start a workout with; rounds is -1 for
\* free rounds.
Configs ==
    [ runTime : 1..MaxRunTime, walkTime : 1..MaxWalkTime,
      rounds : {-1} \cup 1..MaxRounds ]

\* TimerScreen as mounted with config, the GPS modal showing.  enable is the
\* position of handleEnableGPS, gpsTrackerRef whether gpsTrackerRef.current
\* is the tracker, toggles the number of calls of togglePause, and late the
\* number of ticks and presses of buttons since onFinish was called.
\* onFinish counts the renders of the App, each of which passes a new
\* handleFinishWorkout; hidden is document.hidden, hides the number of times
\* the page was hidden and hiddenTicks the ticks taken since it was.
TimerMounted(config) ==
    [ mounted |-> TRUE, config |-> config,
      currentRound |-> 1, currentPhase |-> "countdown",
      timeLeft |-> Countdown, isRunning |-> TRUE, totalElapsed |-> 0,
      isFreeRounds |-> (config.rounds = -1),
      showGPSModal |-> TRUE, gpsEnabled |-> FALSE, distance |-> 0,
      gpsTrackerRef |-> FALSE, runTimeSpent |-> 0, walkTimeSpent |-> 0,
      enable |-> "idle", toggles |-> 0, late |-> 0,
      onFinish |-> 0, hidden |-> FALSE, hides |-> 0, hiddenTicks |-> 0 ]

\* The panel with no simulation running; elapsed is the whole seconds since
\* startTimeRef.
NoPanel ==
    [ isSimulating |-> FALSE, elapsed |-> 0,
      simulationData |-> [ points |-> << >>, distance |-> 0, duration |-> 0 ] ]

\* No TimerScreen is mounted.
NoTimer ==
    [ TimerMounted([runTime |-> 1, walkTime |-> 1, rounds |-> 1])
        EXCEPT !.mounted = FALSE ]

\* No workout is running and the GPS test panel is idle.
ScreenInit ==
    /\ timer = NoTimer
    /\ panel = NoPanel
    /\ saveCalls = << >>

Init == AppInit /\ TrackerInit({TRUE}, {TRUE}) /\ ScreenInit

----------------------------------------------------------------------------
\* Connectivity events and the effects that depend on isOnline

\* The records a new call may take: those of no running call, except the one
\* handleFinishWorkout is still awaiting.
Free ==
    { a \in Attempts : ~InnerRunning(att[a]) /\ ~(hf.pc = "syncing" /\ hf.a = a) }

FirstFree == CHOOSE a \in Free : \A b \in Free : a <= b

SecondFree ==
    CHOOSE a \in Free \ {FirstFree} : \A b \in Free \ {FirstFree} : a <= b

\* window 'online' event: handleOnline.
HandleOnline ==
    /\ ~isOnline
    /\ Reserved(TRUE, renderedOnline, hf) <= Cardinality(Free)
    /\ isOnline' = TRUE
    /\ last' = NoEvent
    /\ UNCHANGED << isSyncing, renderedOnline, att, localSessions,
                    localGps, nextId, now, remoteSessions, remoteGps, hf >>
    /\ UNCHANGED << storeVars, trackerVars, screenVars >>

\* window 'offline' event: handleOffline.
HandleOffline ==
    /\ isOnline
    /\ isOnline' = FALSE
    /\ last' = NoEvent
    /\ UNCHANGED << isSyncing, renderedOnline, att, localSessions,
                    localGps, nextId, now, remoteSessions, remoteGps, hf >>
    /\ UNCHANGED << storeVars, trackerVars, screenVars >>

\* The effects with dependencies [isOnline, syncSessions]: the hook's
\* auto-sync effect, then the App's load effect.  They run after the first
\* commit and after each commit in which isOnline changed; each calls
\* syncSessions() when isOnline.
CommitEffects ==
    /\ renderedOnline # Seen(isOnline)
    /\ renderedOnline' = Seen(isOnline)
    /\ IF isOnline
       THEN /\ 2 <= Cardinality(Free)
            /\ att' = [att EXCEPT
                 ![FirstFree] = SyncSessionsCall(isOnline, "autoSync"),
                 ![SecondFree] = SyncSessionsCall(isOnline, "appLoad")]
            /\ isSyncing' = TRUE
       ELSE UNCHANGED << att, isSyncing >>
    /\ last' = [NoEvent EXCEPT !.kind = "effects", !.from = renderedOnline]
    /\ UNCHANGED << isOnline, localSessions, localGps, nextId, now,
                    remoteSessions, remoteGps, hf >>
    /\ UNCHANGED << storeVars, trackerVars, screenVars >>

----------------------------------------------------------------------------
\* The inner async function of syncSessions (syncPromise)

\* AfterRead without the early return on an empty unsyncedSessions.
AfterReadAlwaysUploads(all) == "upload"

\* Where the inner function goes once allSessionsWithGPS is complete:
\* an empty unsyncedSessions returns true, otherwise the upload follows.
AfterRead(all) ==
    IF Len(UnsyncedSessions(all)) = 0 THEN "done" ELSE "upload"

\* The inner function of call a has read r.all and r.gps and runs the filter.
Filtered(a, r) ==
    IF AfterRead(r.all) = "done"
    THEN /\ att' = [att EXCEPT ![a] = DoneAttempt]
         /\ last' = SettleEvent(a, r, "none", "true", FALSE)
         /\ isSyncing' = AfterFinally(r, isSyncing)
    ELSE /\ att' = [att EXCEPT ![a] = [r EXCEPT !.pc = "upload"]]
         /\ last' = NoEvent
         /\ UNCHANGED isSyncing

\* getAllSessionsWithGPS: getAll(STORE_NAME).  With no session the loop is
\* skipped and the filter runs at once.
GetAll(a) ==
    /\ att[a].pc = "getAll"
    /\ LET r == [att[a] EXCEPT !.all = GetAllSessions(localSessions)]
       IN IF Len(r.all) = 0
          THEN Filtered(a, r)
          ELSE /\ att' = [att EXCEPT ![a] = [r EXCEPT !.pc = "getGps"]]
               /\ last' = NoEvent
               /\ UNCHANGED isSyncing
    /\ UNCHANGED << isOnline, renderedOnline, localSessions, localGps,
                    nextId, now, remoteSessions, remoteGps, hf >>
    /\ UNCHANGED << storeVars, trackerVars, screenVars >>

\* getAllSessionsWithGPS: one get(GPS_STORE_NAME, session.id) of the loop.
\* After the last one the filter runs.
GetGps(a) ==
    /\ att[a].pc = "getGps"
    /\ LET i == Len(att[a].gps) + 1
           r == [att[a] EXCEPT !.gps = Append(att[a].gps,
                                  GetGpsPoints(localGps, att[a].all[i].id))]
       IN IF i < Len(r.all)
          THEN /\ att' = [att EXCEPT ![a] = r]
               /\ last' = NoEvent
               /\ UNCHANGED isSyncing
          ELSE Filtered(a, r)
    /\ UNCHANGED << isOnline, renderedOnline, localSessions, localGps,
                    nextId, now, remoteSessions, remoteGps, hf >>
    /\ UNCHANGED << storeVars, trackerVars, screenVars >>

\* Where the inner function goes after a successful session upload.
AfterUpload(r) ==
    IF Len(r.uploaded) > 0 /\ GpsTracksToUpload(r) # {}
    THEN "gpsUpload" ELSE "clear"

\* What the inner promise settles with when the session insert answers with
\* an error value.
UploadErrorResult == "false"

\* supabase.from('workout_sessions').insert(sessionsToUpload).select('id')
\* answers: rows inserted, an error value, or an exception.
Upload(a, res) ==
    /\ att[a].pc = "upload"
    /\ LET r0 == att[a]
           rows == SessionsToUpload(UnsyncedSessions(r0.all))
       IN CASE res = "ok" ->
                 Len(remoteSessions) + Len(rows) <= MaxRemote /\
                 LET r == [r0 EXCEPT !.uploaded =
                             InsertedIds(Len(remoteSessions), Len(rows))]
                 IN /\ remoteSessions' = remoteSessions \o rows
                    /\ att' = [att EXCEPT ![a] = [r EXCEPT !.pc = AfterUpload(r)]]
                    /\ last' = NoEvent
                    /\ UNCHANGED isSyncing
            [] res = "error" ->
                 /\ att' = [att EXCEPT ![a] = DoneAttempt]
                 /\ last' = SettleEvent(a, r0, res, UploadErrorResult, FALSE)
                 /\ isSyncing' = AfterFinally(r0, isSyncing)
                 /\ UNCHANGED remoteSessions
            [] res = "throw" ->
                 /\ att' = [att EXCEPT ![a] = DoneAttempt]
                 /\ last' = SettleEvent(a, r0, res, "rejected", FALSE)
                 /\ isSyncing' = AfterFinally(r0, isSyncing)
                 /\ UNCHANGED remoteSessions
    /\ UNCHANGED << isOnline, renderedOnline, localSessions, localGps,
                    nextId, now, remoteGps, hf >>
    /\ UNCHANGED << storeVars, trackerVars, screenVars >>

\* supabase.from('gps_tracks').insert(gpsTracksToUpload) answers.  An error
\* value is logged; an exception rejects the inner promise.
GpsUpload(a, res) ==
    /\ att[a].pc = "gpsUpload"
    /\ LET r0 == [att[a] EXCEPT !.gpsRes = res]
       IN CASE res = "ok" ->
                 /\ remoteGps' = remoteGps \cup GpsTracksToUpload(r0)
                 /\ att' = [att EXCEPT ![a] = [r0 EXCEPT !.pc = "clear"]]
                 /\ last' = NoEvent
                 /\ UNCHANGED isSyncing
            [] res = "error" ->
                 /\ att' = [att EXCEPT ![a] = [r0 EXCEPT !.pc = "clear"]]
                 /\ last' = NoEvent
                 /\ UNCHANGED << isSyncing, remoteGps >>
            [] res = "throw" ->
                 /\ att' = [att EXCEPT ![a] = DoneAttempt]
                 /\ last' = SettleEvent(a, r0, "ok", "rejected", FALSE)
                 /\ isSyncing' = AfterFinally(r0, isSyncing)
                 /\ UNCHANGED remoteGps
    /\ UNCHANGED << isOnline, renderedOnline, localSessions, localGps,
                    nextId, now, remoteSessions, hf >>
    /\ UNCHANGED << storeVars, trackerVars, screenVars >>

\* await clearSessions(); return true.
Clear(a) ==
    /\ att[a].pc = "clear"
    /\ localSessions' = ClearStore(localSessions)
    /\ localGps' = ClearStore(localGps)
    /\ att' = [att EXCEPT ![a] = DoneAttempt]
    /\ last' = SettleEvent(a, att[a], "ok", "true", TRUE)
    /\ isSyncing' = AfterFinally(att[a], isSyncing)
    /\ UNCHANGED << isOnline, renderedOnline, nextId, now,
                    remoteSessions, remoteGps, hf >>
    /\ UNCHANGED << storeVars, trackerVars, screenVars >>

\* The positions of the inner function at which a remote call is outstanding.
RemotePcs == {"upload", "gpsUpload"}

\* The record of a call after syncTimeout won the race: the call has
\* returned, the inner function goes on.
TimedOut(r) == [r EXCEPT !.waiting = FALSE]

\* syncTimeout rejects after 30 s: the race is lost, syncSessions() returns
\* false and its finally block runs.
Timeout(a) ==
    /\ InFlight(att[a])
    /\ att[a].pc \in RemotePcs
    /\ att' = [att EXCEPT ![a] = TimedOut(att[a])]
    /\ last' = [NoEvent EXCEPT !.kind = "timeout", !.a = a, !.rec = att[a],
                               !.returned = "false", !.timedOut = TRUE]
    /\ isSyncing' = FALSE
    /\ UNCHANGED << isOnline, renderedOnline, localSessions, localGps,
                    nextId, now, remoteSessions, remoteGps, hf >>
    /\ UNCHANGED << storeVars, trackerVars, screenVars >>

----------------------------------------------------------------------------
\* App.handleFinishWorkout

\* The timer screen calls onFinish(session): the handler of the last commit
\* runs with that commit's isOnline and syncSessions, stamps the record with
\* the date and starts saveSession.  withGps tells whether the session has a
\* non-empty gpsPoints list.
HandleFinishWorkout(withGps) ==
    /\ hf.pc = "idle"
    /\ renderedOnline # "none"
    /\ now < MaxWorkouts
    /\ LET online == renderedOnline = "yes"
       IN /\ online =>
                Reserved(isOnline, renderedOnline, hf) + 1 <= Cardinality(Free)
          /\ hf' = [pc |-> "saving", online |-> online, gps |-> withGps,
                    date |-> now + 1, a |-> 0]
    /\ now' = now + 1
    /\ last' = NoEvent
    /\ UNCHANGED << isOnline, isSyncing, renderedOnline, att,
                    localSessions, localGps, nextId, remoteSessions, remoteGps >>
    /\ UNCHANGED << storeVars, trackerVars, screenVars >>

\* saveSession: the readwrite transaction over both stores commits, and
\* handleFinishWorkout goes on: if (isOnline) await syncSessions().
SaveSessionCommit ==
    /\ hf.pc = "saving"
    /\ localSessions' = localSessions \cup {SessionRecord(nextId, hf.date)}
    /\ localGps' = IF hf.gps
                   THEN localGps \cup {GpsRecord(nextId, hf.date)}
                   ELSE localGps
    /\ nextId' = nextId + 1
    /\ IF hf.online
       THEN /\ att' = [att EXCEPT ![FirstFree] =
                         SyncSessionsCall(hf.online, "postSave")]
            /\ isSyncing' = TRUE
            /\ hf' = [hf EXCEPT !.pc = "syncing", !.a = FirstFree]
       ELSE /\ hf' = HfIdle
            /\ UNCHANGED << att, isSyncing >>
    /\ last' = NoEvent
    /\ UNCHANGED << isOnline, renderedOnline, now, remoteSessions, remoteGps >>
    /\ UNCHANGED << storeVars, trackerVars, screenVars >>

\* saveSession: the transaction aborts, nothing is written and the key
\* generator is reverted; handleFinishWorkout catches the error.
SaveSessionAbort ==
    /\ hf.pc = "saving"
    /\ hf' = HfIdle
    /\ last' = NoEvent
    /\ UNCHANGED << isOnline, isSyncing, renderedOnline, att,
                    localSessions, localGps, nextId, now, remoteSessions,
                    remoteGps >>
    /\ UNCHANGED << storeVars, trackerVars, screenVars >>

\* await syncSessions() returns; the finish screen is shown.
FinishShown ==
    /\ hf.pc = "syncing"
    /\ ~InFlight(att[hf.a])
    /\ hf' = HfIdle
    /\ last' = NoEvent
    /\ UNCHANGED << isOnline, isSyncing, renderedOnline, att,
                    localSessions, localGps, nextId, now, remoteSessions,
                    remoteGps >>
    /\ UNCHANGED << storeVars, trackerVars, screenVars >>

----------------------------------------------------------------------------
\* lib/storage called directly: saveSession, markSessionsSynced, clearSessions
\* and the two reads.  A readwrite transaction works on its own copy of the
\* stores, which replaces the stores when the transaction commits; the
\* transactions of two calls never overlap, since their scopes do.  A write
\* that fails does so as a failed request (quota, constraint), which aborts
\* the transaction.

SessionInputs ==
    [ date : 1..MaxSaves,
      distance : {None, Some(0), Some(MaxDistance)},
      synced : {None, Some(0), Some(1)} ]

\* gpsPoints: undefined, an empty list or a list of points.
PointsInputs == {None, Some(<< >>), Some(<< 1 >>)}

\* sessionIds: lists of known and unknown ids, repeats included.
IdLists == UNION { [1..n -> 1..(MaxSaves + 1)] : n \in 0..MaxIds }

\* The transaction of a call that has just been made.
OpenTx(op, pc) ==
    [ NoTx EXCEPT !.op = op, !.pc = pc, !.sessions = localSessions,
                  !.gps = localGps, !.nextId = nextId ]

\* What a call that ends reports, with the stores as they were before it.
Return(result, value, failedAt) ==
    [ op |-> tx.op, result |-> result, value |-> value,
      session |-> tx.session, points |-> tx.points, ids |-> tx.ids,
      failedAt |-> failedAt, sessionsBefore |-> localSessions,
      gpsBefore |-> localGps, savedBefore |-> saved ]

\* saveSession(session, gpsPoints): the transaction over both stores opens.
SaveSession(session, gpsPoints) ==
    /\ tx.op = "none"
    /\ nextId <= MaxSaves
    /\ tx' = [ OpenTx("save", "addSession") EXCEPT
                 !.session = Some(session), !.points = gpsPoints ]
    /\ ret' = NoReturn
    /\ UNCHANGED << localSessions, localGps, nextId, saved, syncVars,
                    trackerVars, screenVars >>

\* saveSession: add(sessionWithSync) answers with the generated key.
AddSession ==
    /\ tx.op = "save" /\ tx.pc = "addSession"
    /\ LET id == tx.nextId
           record == StoredSession(id, SessionWithSync(TheValue(tx.session)))
       IN tx' = [ tx EXCEPT
                    !.sessions = @ \cup {record},
                    !.nextId = id + 1,
                    !.sessionId = id,
                    !.pc = IF HasPoints(tx.points) THEN "addGps" ELSE "done" ]
    /\ ret' = NoReturn
    /\ UNCHANGED << localSessions, localGps, nextId, saved, syncVars,
                    trackerVars, screenVars >>

\* saveSession: add({sessionId, points, createdAt}) to the GPS store; add
\* succeeds only under a key that is not in the store.
AddGpsTrack ==
    /\ tx.op = "save" /\ tx.pc = "addGps"
    /\ ~ \E g \in tx.gps : g.sessionId = tx.sessionId
    /\ tx' = [ tx EXCEPT
                 !.gps = @ \cup {GpsRecord(tx.sessionId, TheValue(tx.points))},
                 !.pc = "done" ]
    /\ ret' = NoReturn
    /\ UNCHANGED << localSessions, localGps, nextId, saved, syncVars,
                    trackerVars, screenVars >>

\* markSessionsSynced(sessionIds): the transaction over the session store
\* opens.
MarkSessionsSynced(sessionIds) ==
    /\ tx.op = "none"
    /\ tx' = [ OpenTx("mark", IF sessionIds = << >> THEN "done" ELSE "loop")
                 EXCEPT !.ids = sessionIds, !.todo = sessionIds ]
    /\ ret' = NoReturn
    /\ UNCHANGED << localSessions, localGps, nextId, saved, syncVars,
                    trackerVars, screenVars >>

\* markSessionsSynced: one turn of the loop, get(id) and, if a session was
\* found, put(session) with synced = 1.
MarkLoop ==
    /\ tx.op = "mark" /\ tx.pc = "loop"
    /\ LET id == Head(tx.todo)
       IN tx' = [ tx EXCEPT
                    !.sessions = IF GetSession(@, id) # {}
                                 THEN MarkSynced(@, id) ELSE @,
                    !.todo = Tail(@),
                    !.pc = IF Tail(tx.todo) = << >> THEN "done" ELSE "loop" ]
    /\ ret' = NoReturn
    /\ UNCHANGED << localSessions, localGps, nextId, saved, syncVars,
                    trackerVars, screenVars >>

\* clearSessions(): the transaction over both stores opens.
ClearSessions ==
    /\ tx.op = "none"
    /\ tx' = OpenTx("clear", "clearSessions")
    /\ ret' = NoReturn
    /\ UNCHANGED << localSessions, localGps, nextId, saved, syncVars,
                    trackerVars, screenVars >>

\* clearSessions: objectStore(STORE_NAME).clear().
ClearSessionStore ==
    /\ tx.op = "clear" /\ tx.pc = "clearSessions"
    /\ tx' = [ tx EXCEPT !.sessions = ClearStore(@), !.pc = "clearGps" ]
    /\ ret' = NoReturn
    /\ UNCHANGED << localSessions, localGps, nextId, saved, syncVars,
                    trackerVars, screenVars >>

\* clearSessions: objectStore(GPS_STORE_NAME).clear().
ClearGpsStore ==
    /\ tx.op = "clear" /\ tx.pc = "clearGps"
    /\ tx' = [ tx EXCEPT !.gps = ClearStore(@), !.pc = "done" ]
    /\ ret' = NoReturn
    /\ UNCHANGED << localSessions, localGps, nextId, saved, syncVars,
                    trackerVars, screenVars >>

\* await tx.done resolves: the transaction commits and the call returns;
\* saveSession returns the generated key.
TxDone ==
    /\ tx.op # "none" /\ tx.pc = "done"
    /\ localSessions' = Committed(localSessions, tx.sessions)
    /\ localGps' = Committed(localGps, tx.gps)
    /\ nextId' = Committed(nextId, tx.nextId)
    /\ ret' = Return("resolved",
                     IF tx.op = "save" THEN Some(tx.sessionId) ELSE None,
                     "none")
    /\ saved' = IF tx.op = "save"
                THEN saved \cup {[ id |-> tx.sessionId,
                                   hadPoints |-> HasPoints(tx.points) ]}
                ELSE saved
    /\ tx' = NoTx
    /\ UNCHANGED << syncVars, trackerVars, screenVars >>

\* The request the call is awaiting, or the commit, fails: the transaction
\* aborts and the promise of the call rejects.
TxFails ==
    /\ tx.op # "none"
    /\ localSessions' = Aborted(localSessions, tx.sessions)
    /\ localGps' = Aborted(localGps, tx.gps)
    /\ nextId' = Aborted(nextId, tx.nextId)
    /\ ret' = Return(FailureOutcome(tx.pc), None, tx.pc)
    /\ tx' = NoTx
    /\ UNCHANGED << saved, syncVars, trackerVars, screenVars >>

\* getSessions().
GetSessionsCall ==
    /\ tx.op = "none"
    /\ ret' = [ NoReturn EXCEPT
                  !.op = "getSessions", !.result = "resolved",
                  !.value = Some(GetSessions(localSessions)),
                  !.sessionsBefore = localSessions, !.gpsBefore = localGps,
                  !.savedBefore = saved ]
    /\ UNCHANGED << localSessions, localGps, nextId, tx, saved, syncVars,
                    trackerVars, screenVars >>

\* getUnsyncedSessions().
GetUnsyncedSessionsCall ==
    /\ tx.op = "none"
    /\ ret' = [ NoReturn EXCEPT
                  !.op = "getUnsyncedSessions", !.result = "resolved",
                  !.value = Some(GetUnsyncedSessions(localSessions)),
                  !.sessionsBefore = localSessions, !.gpsBefore = localGps,
                  !.savedBefore = saved ]
    /\ UNCHANGED << localSessions, localGps, nextId, tx, saved, syncVars,
                    trackerVars, screenVars >>

StoreNext ==
    \/ \E session \in SessionInputs : \E gpsPoints \in PointsInputs :
          SaveSession(session, gpsPoints)
    \/ AddSession
    \/ AddGpsTrack
    \/ \E sessionIds \in IdLists : MarkSessionsSynced(sessionIds)
    \/ MarkLoop
    \/ ClearSessions
    \/ ClearSessionStore
    \/ ClearGpsStore
    \/ TxDone
    \/ TxFails
    \/ GetSessionsCall
    \/ GetUnsyncedSessionsCall

StoreSpec == Init /\ [][StoreNext]_vars

----------------------------------------------------------------------------
\* GPSTracker called directly, with the callbacks of navigator.geolocation

\* tlast for a call or callback, the kept fields carried over.
Call(op, outcome) ==
    [ NoCall EXCEPT !.op = op, !.outcome = outcome,
                    !.wasTracking = isTracking,
                    !.wasStopped = tlast.stopped,
                    !.fixes = tlast.fixes, !.stopped = tlast.stopped,
                    !.delivered = tlast.delivered,
                    !.lastReported = tlast.lastReported ]

\* startTracking(): rejects without geolocation, resolves at once when
\* already tracking, otherwise empties the points and opens a subscription
\* whose callbacks settle the promise.
StartTracking ==
    /\ IF ~geolocation.supported
       THEN /\ tlast' = Call("start", "rejected")
            /\ UNCHANGED << watchId, points, isTracking, geolocation >>
       ELSE IF AlreadyTracking(isTracking)
       THEN /\ tlast' = Call("start", "resolved")
            /\ UNCHANGED << watchId, points, isTracking, geolocation >>
       ELSE /\ geolocation.nextWatchId <= MaxStarts
            /\ points' = << >>
            /\ isTracking' = TRUE
            /\ watchId' = geolocation.nextWatchId
            /\ geolocation' =
                 [ geolocation EXCEPT
                     !.watches = @ \cup {geolocation.nextWatchId},
                     !.nextWatchId = @ + 1,
                     !.started[geolocation.nextWatchId] = "pending" ]
            /\ tlast' = [ Call("start", "pending") EXCEPT
                            !.watch = geolocation.nextWatchId,
                            !.fixes = 0, !.stopped = FALSE,
                            !.delivered = << >>, !.lastReported = 0 ]
    /\ UNCHANGED onUpdate

\* The success callback of subscription w: the point is pushed, the observer
\* is told the total distance, and the first point resolves the promise.
OnPosition(w, point) ==
    /\ w \in geolocation.watches
    /\ Len(points) < MaxFixes
    /\ points' = Append(points, point)
    /\ geolocation' =
         [ geolocation EXCEPT
             !.started[w] = AfterFix(@, Len(points')),
             !.first[w] = IF @ = "none" THEN "fix" ELSE @ ]
    /\ tlast' = [ Call("position", geolocation'.started[w]) EXCEPT
                    !.watch = w,
                    !.point = point,
                    !.observer =
                        OnUpdate(onUpdate, point,
                                 CalculateTotalDistance(points')),
                    !.fixes = tlast.fixes + 1,
                    !.delivered = Append(tlast.delivered, point),
                    !.lastReported =
                        IF onUpdate THEN CalculateTotalDistance(points')
                        ELSE @ ]
    /\ UNCHANGED << watchId, isTracking, onUpdate >>

\* The error callback of subscription w: the error is logged and, if no point
\* has been recorded, rejects the promise.
OnPositionError(w) ==
    /\ w \in geolocation.watches
    /\ geolocation' =
         [ geolocation EXCEPT
             !.started[w] = AfterError(@, Len(points)),
             !.first[w] = IF @ = "none" THEN "error" ELSE @,
             !.errors = @ \cup {w} ]
    /\ tlast' = [ Call("error", geolocation'.started[w]) EXCEPT !.watch = w ]
    /\ UNCHANGED << watchId, points, isTracking, onUpdate >>

\* stopTracking(): the subscription is cleared, if there is one, and the
\* track of the points is returned with a new array of them.
StopTracking ==
    /\ IF watchId # 0
       THEN /\ geolocation' =
                 [ geolocation EXCEPT !.watches = ClearWatch(@, watchId) ]
            /\ watchId' = 0
       ELSE UNCHANGED << geolocation, watchId >>
    /\ isTracking' = FALSE
    /\ tlast' = [ Call("stop", "returned") EXCEPT
                    !.track = GPSTrack(points),
                    !.returned = CopyOf(points),
                    !.stopped = TRUE ]
    /\ UNCHANGED << points, onUpdate >>

\* getCurrentDistance().
GetCurrentDistanceCall ==
    /\ tlast' = [ Call("getCurrentDistance", "returned") EXCEPT
                    !.value = Ratio(CalculateTotalDistance(points), 1) ]
    /\ UNCHANGED << watchId, points, isTracking, geolocation, onUpdate >>

\* getCurrentPace().
GetCurrentPaceCall ==
    /\ tlast' = [ Call("getCurrentPace", "returned") EXCEPT
                    !.value = GetCurrentPace(points) ]
    /\ UNCHANGED << watchId, points, isTracking, geolocation, onUpdate >>

\* getPoints().
GetPointsCall ==
    /\ tlast' = [ Call("getPoints", "returned") EXCEPT
                    !.returned = CopyOf(points) ]
    /\ UNCHANGED << watchId, points, isTracking, geolocation, onUpdate >>

\* The caller pushes a point onto the array that getPoints or stopTracking
\* returned to it; the tracker's points change if it is the same array.
PushOntoReturned(point) ==
    /\ tlast.op \in {"getPoints", "stop"}
    /\ tlast' = [ Call("push", "returned") EXCEPT
                    !.returned = [ tlast.returned EXCEPT
                                     !.items = Append(@, point) ] ]
    /\ points' = IF tlast.returned.shared THEN Append(points, point)
                 ELSE points
    /\ UNCHANGED << watchId, isTracking, geolocation, onUpdate >>

TrackerNext ==
    \/ StartTracking /\ UNCHANGED appVars
    \/ \E w \in 1..MaxStarts : \E point \in GPSPoints :
          OnPosition(w, point) /\ UNCHANGED appVars
    \/ \E w \in 1..MaxStarts : OnPositionError(w) /\ UNCHANGED appVars
    \/ StopTracking /\ UNCHANGED appVars
    \/ GetCurrentDistanceCall /\ UNCHANGED appVars
    \/ GetCurrentPaceCall /\ UNCHANGED appVars
    \/ GetPointsCall /\ UNCHANGED appVars
    \/ \E point \in GPSPoints : PushOntoReturned(point) /\ UNCHANGED appVars

\* A tracker in a browser with or without navigator.geolocation, constructed
\* with or without an observer.
InitTracker == AppInit /\ TrackerInit(BOOLEAN, BOOLEAN) /\ ScreenInit

TrackerSpec == InitTracker /\ [][TrackerNext]_vars

----------------------------------------------------------------------------
\* The calculations of GPSTracker on tracks of up to MaxTrack points

Tracks == UNION { [1..n -> GPSPoints] : n \in 0..MaxTrack }

\* A GPSTracker with an observer after startTracking() and the fixes pts.
Tracking(pts) ==
    /\ watchId = 1
    /\ points = pts
    /\ isTracking = TRUE
    /\ onUpdate = TRUE
    /\ geolocation =
         Geolocation(TRUE, {1}, 2,
                     [w \in 1..MaxStarts |->
                        IF w = 1 THEN AfterFix("pending", Len(pts))
                        ELSE "none"],
                     [w \in 1..MaxStarts |->
                        IF w = 1 /\ Len(pts) > 0 THEN "fix" ELSE "none"],
                     {})
    /\ tlast = [ NoCall EXCEPT
                   !.fixes = Len(pts), !.delivered = pts,
                   !.lastReported = CalculateTotalDistance(pts) ]

InitMetrics == AppInit /\ ScreenInit /\ \E pts \in Tracks : Tracking(pts)

MetricsNext ==
    \/ StopTracking /\ UNCHANGED appVars
    \/ GetCurrentDistanceCall /\ UNCHANGED appVars
    \/ GetCurrentPaceCall /\ UNCHANGED appVars
    \/ GetPointsCall /\ UNCHANGED appVars

MetricsSpec == InitMetrics /\ [][MetricsNext]_vars

----------------------------------------------------------------------------
\* TimerScreen: the interval timer of a workout, its GPS setup, and the
\* session it hands to App.handleFinishWorkout

\* The React state of TimerScreen: a render follows when it changes.
ReactState(s) ==
    << s.currentRound, s.currentPhase, s.timeLeft, s.isRunning,
       s.totalElapsed, s.showGPSModal, s.gpsEnabled, s.distance,
       s.runTimeSpent, s.walkTimeSpent >>

\* The dependencies of switchToNextPhase that can change: a change makes a
\* new callback.
SwitchDeps(s) ==
    << s.currentPhase, s.currentRound, s.runTimeSpent, s.walkTimeSpent,
       s.onFinish, s.distance >>

\* The dependencies of the timer effect.
TimerDeps(s) == << s.isRunning, s.timeLeft, s.currentPhase, SwitchDeps(s) >>

\* The dependencies of the effect that counts run and walk seconds.
TrackDeps(s) == << s.isRunning, s.currentPhase, s.timeLeft >>

\* WorkoutFinished with the round compared by > instead of >=.
WorkoutFinishedAfter(s) ==
    /\ s.currentPhase = "run"
    /\ ~s.isFreeRounds
    /\ s.currentRound > s.config.rounds

\* switchToNextPhase in the run phase of the last round of a structured
\* workout: the workout is finished.
WorkoutFinished(s) ==
    /\ s.currentPhase = "run"
    /\ ~s.isFreeRounds
    /\ s.currentRound >= s.config.rounds

\* The state updates switchToNextPhase of render s queues on q.
SwitchToNextPhase(s, q) ==
    IF s.currentPhase = "countdown"
    THEN [ q EXCEPT !.currentPhase = "run", !.timeLeft = s.config.runTime ]
    ELSE IF s.currentPhase = "run"
    THEN IF WorkoutFinished(s) THEN q
         ELSE [ q EXCEPT !.currentPhase = "walk",
                         !.timeLeft = s.config.walkTime ]
    ELSE [ q EXCEPT !.currentRound = @ + 1, !.currentPhase = "countdown",
                    !.timeLeft = Countdown ]

\* The timer effect of render s, run because its dependencies differ from
\* those of render old: with time left it sets the interval, at 0 it calls
\* switchToNextPhase.
TimerEffectCalls(old, s) ==
    /\ TimerDeps(s) # TimerDeps(old)
    /\ s.isRunning
    /\ s.timeLeft = 0

TimerEffect(old, s, q) ==
    IF TimerEffectCalls(old, s) THEN SwitchToNextPhase(s, q) ELSE q

\* The effect that counts the seconds spent running and walking.
TrackEffect(old, s, q) ==
    IF TrackDeps(s) = TrackDeps(old) \/ ~s.isRunning THEN q
    ELSE IF s.currentPhase = "run" /\ s.timeLeft > 0
    THEN [ q EXCEPT !.runTimeSpent = @ + 1 ]
    ELSE IF s.currentPhase = "walk" /\ s.timeLeft > 0
    THEN [ q EXCEPT !.walkTimeSpent = @ + 1 ]
    ELSE q

\* The effect on totalElapsed that adjusts the counter of the current phase.
SumEffect(old, s, q) ==
    LET sum == s.runTimeSpent + s.walkTimeSpent
    IN IF s.totalElapsed = old.totalElapsed \/ sum = s.totalElapsed THEN q
       ELSE IF s.currentPhase = "run"
       THEN [ q EXCEPT !.runTimeSpent = @ + (s.totalElapsed - sum) ]
       ELSE IF s.currentPhase = "walk"
       THEN [ q EXCEPT !.walkTimeSpent = @ + (s.totalElapsed - sum) ]
       ELSE q

\* The effects of render s in the order of their definition, old being the
\* render before.
Effects(old, s) ==
    SumEffect(old, s, TrackEffect(old, s, TimerEffect(old, s, s)))

RECURSIVE Settle(_, _, _)
\* The renders that follow a change of state from the rendered old to s,
\* until an effect pass changes nothing: the state reached and the renders
\* whose switchToNextPhase finished the workout, after those in fin.
Settle(old, s, fin) ==
    IF ~s.mounted \/ ReactState(s) = ReactState(old)
    THEN [ state |-> s, finishes |-> fin ]
    ELSE Settle(s, Effects(old, s),
                IF TimerEffectCalls(old, s) /\ WorkoutFinished(s)
                THEN Append(fin, s) ELSE fin)

\* gpsTrack?.totalDistance || distance || 0, gpsTrack being None without a
\* tracker in gpsTrackerRef.
FinalDistance(gpsTrack, distance) ==
    IF gpsTrack # None /\ TheValue(gpsTrack).totalDistance # 0
    THEN TheValue(gpsTrack).totalDistance
    ELSE IF distance # 0 THEN distance ELSE 0

\* The session switchToNextPhase and stopWorkout of render s build.
Session(s, gpsTrack) ==
    [ totalDuration |-> s.runTimeSpent + s.walkTimeSpent,
      totalRunTime |-> s.runTimeSpent,
      totalWalkTime |-> s.walkTimeSpent,
      distance |-> FinalDistance(gpsTrack, s.distance),
      gpsPoints |-> IF gpsTrack = None THEN None
                    ELSE Some(TheValue(gpsTrack).points) ]

\* App.handleFinishWorkout: the arguments of its call of saveSession.
HandleFinishWorkoutSave(session) ==
    [ sessionRecord |->
        [ total_duration |-> session.totalDuration,
          total_run_time |-> session.totalRunTime,
          total_walk_time |-> session.totalWalkTime,
          distance |-> session.distance ],
      gpsPoints |-> session.gpsPoints,
      by |-> "timer" ]

\* The calls of saveSession that the calls of onFinish in the renders fin
\* make, gpsTrack being what stopTracking returned.
OnFinish(fin, gpsTrack) ==
    [ i \in 1..Len(fin) |-> HandleFinishWorkoutSave(Session(fin[i], gpsTrack)) ]

\* A handler of TimerScreen has left the state s1, after calling onFinish
\* itself in the renders direct: the renders that follow, the calls of
\* onFinish, and stopTracking if the workout was finished with a tracker.
Commit(s1, direct) ==
    LET r == Settle(timer, s1, direct)
        gpsTrack == IF timer.gpsTrackerRef THEN Some(GPSTrack(points))
                    ELSE None
    IN /\ r.state.currentRound <= MaxRounds
       /\ r.state.runTimeSpent + r.state.walkTimeSpent <= MaxSpent
       /\ Len(saveCalls) + Len(r.finishes) <= MaxFinishes
       /\ timer' = r.state
       /\ saveCalls' = saveCalls \o OnFinish(r.finishes, gpsTrack)
       /\ IF r.finishes # << >> /\ timer.gpsTrackerRef
          THEN StopTracking
          ELSE UNCHANGED trackerVars

\* A tick or a press of a button: it is counted once onFinish was called.
Event(s) ==
    IF saveCalls = << >> THEN s ELSE [ s EXCEPT !.late = @ + 1 ]

\* TimerScreen is mounted, and takes a tick or a press of a button.
Mounted ==
    /\ timer.mounted
    /\ saveCalls # << >> => timer.late < MaxLate

\* The callback of setInterval: a second has passed.
Tick ==
    /\ Mounted /\ timer.isRunning /\ timer.timeLeft > 0
    /\ timer.hidden => timer.hiddenTicks <= MaxMissed
    /\ Commit(Event([ timer EXCEPT
                        !.timeLeft = @ - 1,
                        !.totalElapsed =
                            IF timer.currentPhase # "countdown" THEN @ + 1
                            ELSE @,
                        !.hiddenTicks = IF timer.hidden THEN @ + 1 ELSE @ ]),
              << >>)

\* togglePause.
TogglePause ==
    /\ Mounted
    /\ timer.toggles < MaxToggles
    /\ Commit(Event([ timer EXCEPT !.isRunning = ~@, !.toggles = @ + 1 ]),
              << >>)

\* skipPhase.
SkipPhase ==
    /\ Mounted
    /\ timer.timeLeft > 0
    /\ Commit(Event([ timer EXCEPT !.timeLeft = 0 ]), << >>)

\* stopWorkout: the tracker is stopped and the session handed to onFinish.
StopWorkout ==
    /\ timer.mounted
    /\ Commit(timer, << timer >>)

\* handleEnableGPS up to its first await: a GPSTracker is made and
\* requestPermission throws without navigator.geolocation, which the catch
\* block answers, or asks for the current position.
HandleEnableGPS ==
    /\ timer.mounted /\ timer.showGPSModal /\ timer.enable = "idle"
    /\ IF ~geolocation.supported
       THEN Commit([ timer EXCEPT !.enable = "failed", !.gpsEnabled = FALSE,
                                  !.showGPSModal = FALSE ], << >>)
       ELSE Commit([ timer EXCEPT !.enable = "permission" ], << >>)

\* requestPermission resolves: with permission startTracking is called,
\* without it the catch block runs.
PermissionAnswered(hasPermission) ==
    /\ timer.mounted
    /\ timer.enable = "permission"
    /\ IF hasPermission
       THEN /\ StartTracking
            /\ timer' = [ timer EXCEPT !.enable = "starting" ]
            /\ UNCHANGED saveCalls
       ELSE Commit([ timer EXCEPT !.enable = "failed", !.gpsEnabled = FALSE,
                                  !.showGPSModal = FALSE ], << >>)

\* handleDisableGPS.
HandleDisableGPS ==
    /\ timer.mounted /\ timer.showGPSModal /\ timer.enable = "idle"
    /\ Commit([ timer EXCEPT !.enable = "disabled", !.gpsEnabled = FALSE,
                             !.showGPSModal = FALSE ], << >>)

\* handleEnableGPS after await tracker.startTracking() has resolved.
EnableResolved(s) ==
    [ s EXCEPT !.enable = "done", !.gpsTrackerRef = TRUE,
               !.gpsEnabled = TRUE, !.showGPSModal = FALSE ]

\* handleEnableGPS after await tracker.startTracking() has rejected.
EnableRejected(s) ==
    [ s EXCEPT !.enable = "failed", !.gpsEnabled = FALSE,
               !.showGPSModal = FALSE ]

\* A fix is delivered to the tracker of TimerScreen: the success callback
\* runs, the observer sets the distance, and handleEnableGPS goes on if the
\* fix resolved its startTracking.  If the render that follows finishes the
\* workout with the tracker in gpsTrackerRef, stopTracking is called on the
\* tracker that has just pushed the fix.
GpsFix(w, point) ==
    /\ timer.mounted
    /\ w \in geolocation.watches
    /\ Len(points) < MaxTimerFixes
    /\ LET pushed == Append(points, point)
           status == AfterFix(geolocation.started[w], Len(pushed))
           told == [ timer EXCEPT
                       !.distance = CalculateTotalDistance(pushed) ]
           s1 == IF timer.enable = "starting" /\ status = "resolved"
                 THEN EnableResolved(told) ELSE told
           r == Settle(timer, s1, << >>)
           gpsTrack == IF s1.gpsTrackerRef THEN Some(GPSTrack(pushed))
                       ELSE None
       IN /\ r.state.currentRound <= MaxRounds
          /\ r.state.runTimeSpent + r.state.walkTimeSpent <= MaxSpent
          /\ Len(saveCalls) + Len(r.finishes) <= MaxFinishes
          /\ timer' = r.state
          /\ saveCalls' = saveCalls \o OnFinish(r.finishes, gpsTrack)
          /\ IF r.finishes # << >> /\ s1.gpsTrackerRef
             THEN /\ points' = pushed
                  /\ watchId' = 0
                  /\ isTracking' = FALSE
                  /\ geolocation' =
                       [ geolocation EXCEPT
                           !.started[w] = status,
                           !.first[w] = IF @ = "none" THEN "fix" ELSE @,
                           !.watches = IF watchId # 0
                                       THEN ClearWatch(@, watchId) ELSE @ ]
                  /\ tlast' = [ Call("stop", "returned") EXCEPT
                                  !.wasTracking = TRUE,
                                  !.track = GPSTrack(pushed),
                                  !.returned = CopyOf(pushed),
                                  !.point = point,
                                  !.fixes = tlast.fixes + 1,
                                  !.delivered = Append(tlast.delivered, point),
                                  !.lastReported =
                                      CalculateTotalDistance(pushed),
                                  !.stopped = TRUE ]
                  /\ UNCHANGED onUpdate
             ELSE OnPosition(w, point)

\* An error is delivered to the tracker of TimerScreen: the error callback
\* runs, and the catch block of handleEnableGPS if the error rejected its
\* startTracking.
GpsError(w) ==
    /\ timer.mounted
    /\ OnPositionError(w)
    /\ LET status == AfterError(geolocation.started[w], Len(points))
       IN IF timer.enable = "starting" /\ status = "rejected"
          THEN LET r == Settle(timer, EnableRejected(timer), << >>)
               IN /\ r.finishes = << >>
                  /\ timer' = r.state
          ELSE UNCHANGED timer
    /\ UNCHANGED saveCalls

\* App.handleFinishWorkout has saved the session and shows the finish
\* screen: TimerScreen is unmounted.
ShowFinishScreen ==
    /\ timer.mounted
    /\ saveCalls # << >>
    /\ timer' = [ timer EXCEPT !.mounted = FALSE ]
    /\ UNCHANGED << saveCalls, trackerVars >>

TimerNext ==
    \/ Tick /\ UNCHANGED outsideTimer
    \/ TogglePause /\ UNCHANGED outsideTimer
    \/ SkipPhase /\ UNCHANGED outsideTimer
    \/ StopWorkout /\ UNCHANGED outsideTimer
    \/ HandleEnableGPS /\ UNCHANGED outsideTimer
    \/ \E hasPermission \in BOOLEAN :
          PermissionAnswered(hasPermission) /\ UNCHANGED outsideTimer
    \/ HandleDisableGPS /\ UNCHANGED outsideTimer
    \/ \E w \in 1..MaxStarts : \E point \in TimerFixes :
          GpsFix(w, point) /\ UNCHANGED outsideTimer
    \/ \E w \in 1..MaxStarts : GpsError(w) /\ UNCHANGED outsideTimer
    \/ ShowFinishScreen /\ UNCHANGED outsideTimer

\* A workout has started from SetupScreen, in a browser with or without
\* navigator.geolocation.
InitTimer ==
    /\ AppInit
    /\ TrackerInit(BOOLEAN, {TRUE})
    /\ \E config \in Configs : timer = TimerMounted(config)
    /\ panel = NoPanel
    /\ saveCalls = << >>

TimerSpec == InitTimer /\ [][TimerNext]_vars

----------------------------------------------------------------------------
\* TimerScreen without GPS: the workout from its first countdown to the finish
\* screen, with the page hidden and shown and the App rendering again

\* The App renders again (isOnline or isSyncing of the hook has changed) and
\* passes a new handleFinishWorkout as onFinish: switchToNextPhase is made
\* anew and the timer effect runs again.
ParentRender ==
    /\ timer.mounted
    /\ timer.onFinish < MaxParentRenders
    /\ LET s == [ timer EXCEPT !.onFinish = @ + 1 ]
       IN Commit(Effects(timer, s),
                 IF TimerEffectCalls(timer, s) /\ WorkoutFinished(s)
                 THEN << s >> ELSE << >>)

\* visibilitychange with document.hidden: lastUpdateRef is set.
HandleVisibilityHidden ==
    /\ timer.mounted
    /\ ~timer.hidden
    /\ timer.hides < MaxHides
    /\ Commit([ timer EXCEPT !.hidden = TRUE, !.hides = @ + 1,
                             !.hiddenTicks = 0 ], << >>)

\* The state updates of handleVisibilityChange when the page is shown again
\* timeMissed whole seconds after lastUpdateRef.
Foregrounded(s, timeMissed) ==
    IF timeMissed > 0 /\ s.isRunning
    THEN [ s EXCEPT
             !.totalElapsed = @ + timeMissed,
             !.runTimeSpent =
                 IF s.currentPhase = "run" THEN @ + timeMissed ELSE @,
             !.walkTimeSpent =
                 IF s.currentPhase = "walk" THEN @ + timeMissed ELSE @,
             !.timeLeft = IF @ - timeMissed > 0 THEN @ - timeMissed ELSE 0 ]
    ELSE s

\* visibilitychange with the page shown again.  The interval fires once a
\* second at most, so the ticks taken since the page was hidden are at most
\* one more than the whole seconds since.
HandleVisibilityShown(timeMissed) ==
    /\ timer.mounted
    /\ timer.hidden
    /\ timer.hiddenTicks <= timeMissed + 1
    /\ Commit(Foregrounded([ timer EXCEPT !.hidden = FALSE ], timeMissed),
              << >>)

WorkoutNext ==
    \/ Tick /\ UNCHANGED outsideTimer
    \/ TogglePause /\ UNCHANGED outsideTimer
    \/ SkipPhase /\ UNCHANGED outsideTimer
    \/ StopWorkout /\ UNCHANGED outsideTimer
    \/ ParentRender /\ UNCHANGED outsideTimer
    \/ HandleVisibilityHidden /\ UNCHANGED outsideTimer
    \/ \E timeMissed \in 0..MaxMissed :
          HandleVisibilityShown(timeMissed) /\ UNCHANGED outsideTimer
    \/ ShowFinishScreen /\ UNCHANGED outsideTimer

\* A workout has started from SetupScreen, online, and the GPS modal is left
\* alone.
InitWorkout ==
    /\ AppInit
    /\ isOnline
    /\ TrackerInit({TRUE}, {TRUE})
    /\ \E config \in Configs : timer = TimerMounted(config)
    /\ panel = NoPanel
    /\ saveCalls = << >>

WorkoutSpec == InitWorkout /\ [][WorkoutNext]_vars

----------------------------------------------------------------------------
\* GPSTestPanel: a simulated track and the session saved from it

\* Math.max of two integers.
Max(a, b) == IF a > b THEN a ELSE b

\* Math.floor(duration * 0.6) and Math.floor(duration * 0.4): the products
\* of these durations with the doubles 0.6 and 0.4 round to the exact tenths.
FloorOfTenths(duration, tenths) == (duration * tenths) \div 10

\* saveSimulationResults: the arguments of its call of saveSession.
SaveSimulationResults(simulationData) ==
    [ sessionRecord |->
        [ total_duration |-> simulationData.duration,
          total_run_time |->
              Max(1, FloorOfTenths(simulationData.duration, 6)),
          total_walk_time |->
              Max(1, FloorOfTenths(simulationData.duration, 4)),
          distance |-> simulationData.distance ],
      gpsPoints |-> Some(simulationData.points),
      by |-> "panel" ]

\* startSimulation: a new GPSTracker and an empty simulationData.
StartSimulation ==
    /\ ~panel.isSimulating
    /\ Len(saveCalls) < MaxSimulations
    /\ panel' = [ NoPanel EXCEPT !.isSimulating = TRUE ]
    /\ points' = << >>
    /\ UNCHANGED << saveCalls, watchId, isTracking, onUpdate, geolocation,
                    tlast >>

\* A second passes during the simulation.
SecondPasses ==
    /\ panel.isSimulating
    /\ panel.elapsed < MaxDuration
    /\ panel' = [ panel EXCEPT !.elapsed = @ + 1 ]
    /\ UNCHANGED << saveCalls, trackerVars >>

\* The callback of the simulator: the point is pushed onto the points of the
\* tracker, and simulationData takes the distance, the duration and the
\* point.
SimulatedPoint(point) ==
    /\ panel.isSimulating
    /\ Len(points) < MaxFixes
    /\ points' = Append(points, point)
    /\ panel' = [ panel EXCEPT
                    !.simulationData =
                        [ points |-> Append(@.points, point),
                          distance |-> CalculateTotalDistance(points'),
                          duration |-> panel.elapsed ] ]
    /\ UNCHANGED << saveCalls, watchId, isTracking, onUpdate, geolocation,
                    tlast >>

\* stopSimulation: the results are saved if there are points.
StopSimulation ==
    /\ panel.isSimulating
    /\ panel' = [ panel EXCEPT !.isSimulating = FALSE ]
    /\ saveCalls' =
         IF Len(panel.simulationData.points) > 0
         THEN Append(saveCalls, SaveSimulationResults(panel.simulationData))
         ELSE saveCalls
    /\ UNCHANGED trackerVars

PanelNext ==
    \/ StartSimulation /\ UNCHANGED outsidePanel
    \/ SecondPasses /\ UNCHANGED outsidePanel
    \/ \E point \in TimerFixes : SimulatedPoint(point) /\ UNCHANGED outsidePanel
    \/ StopSimulation /\ UNCHANGED outsidePanel

\* SetupScreen with the GPS test panel open.
InitPanel == AppInit /\ TrackerInit({TRUE}, {TRUE}) /\ ScreenInit

PanelSpec == InitPanel /\ [][PanelNext]_vars

----------------------------------------------------------------------------
\* Specifications

RemoteAnswers == {"ok", "error", "throw"}

Next ==
    \/ HandleOnline
    \/ HandleOffline
    \/ CommitEffects
    \/ \E a \in Attempts : GetAll(a)
    \/ \E a \in Attempts : GetGps(a)
    \/ \E a \in Attempts : \E res \in RemoteAnswers : Upload(a, res)
    \/ \E a \in Attempts : \E res \in RemoteAnswers : GpsUpload(a, res)
    \/ \E a \in Attempts : Clear(a)
    \/ \E a \in Attempts : Timeout(a)
    \/ \E withGps \in BOOLEAN : HandleFinishWorkout(withGps)
    \/ SaveSessionCommit
    \/ SaveSessionAbort
    \/ FinishShown

Spec == Init /\ [][Next]_vars

\* The scheduling the runtime guarantees: a pending commit runs its effects,
\* IndexedDB requests complete, and the 30 s timer of a call fires while the
\* call is still waiting on a remote answer.
Fairness ==
    /\ WF_vars(CommitEffects)
    /\ \A a \in Attempts :
         /\ WF_vars(GetAll(a))
         /\ WF_vars(GetGps(a))
         /\ WF_vars(Clear(a))
         /\ WF_vars(Timeout(a))

FairSpec == Spec /\ Fairness

----------------------------------------------------------------------------
\* Claims about syncSessions

\* C1: at most one sync is in flight at any time: no two syncSessions()
\* calls are waiting for their attempt at once (a call made while another
\* is in flight would return at once, without reading and without uploading).
C1_AtMostOneSyncInFlight ==
    Cardinality({ a \in Attempts : InFlight(att[a]) }) <= 1

\* C2: uploads are never duplicated: no session saved by saveSession has two
\* rows in the remote table workout_sessions.
C2_NoDuplicateUpload ==
    \A i, j \in DOMAIN remoteSessions :
        i # j => remoteSessions[i].date # remoteSessions[j].date

\* The sessions and GPS tracks an attempt has read from the local store.
SessionsRead(r) == Range(r.all)

GpsRead(r) ==
    { GpsRecord(r.all[i].id, r.gps[i]) : i \in { j \in DOMAIN r.gps : r.gps[j] # 0 } }

\* C3: when the session upload answers with an error, the local store is
\* untouched: every session and GPS record the attempt found is still there,
\* the sessions still unsynced, and no GPS upload was attempted.
C3_FailedUploadLeavesLocalStore ==
    (last.kind = "settle" /\ last.upRes = "error") =>
        /\ SessionsRead(last.rec) \subseteq localSessions
        /\ GpsRead(last.rec) \subseteq localGps
        /\ \A s \in SessionsRead(last.rec) : s.synced = 0
        /\ last.gpsRes = "none"

\* C4: when the session upload answers with an error, syncSessions() returns
\* false.
C4_FailedUploadReportsFailure ==
    (last.kind = "settle" /\ last.upRes = "error" /\ ~last.timedOut) =>
        last.returned = "false"

\* The rows of the remote table that an attempt's session upload inserted.
UploadedPresent(r) ==
    \A i \in DOMAIN r.uploaded :
        /\ r.uploaded[i] \in DOMAIN remoteSessions
        /\ remoteSessions[r.uploaded[i]].date = UnsyncedSessions(r.all)[i].date

\* C5: a GPS upload that fails, by an error value or by an exception, after a
\* successful session upload never fails the sync: syncSessions() returns
\* true, the local store is cleared and the sessions are in the remote table.
C5_GpsFailureNeverFailsSync ==
    (last.kind = "settle" /\ last.upRes = "ok" /\ ~last.timedOut
       /\ last.gpsRes \in {"error", "throw"}) =>
        /\ last.returned = "true"
        /\ localSessions = {} /\ localGps = {}
        /\ UploadedPresent(last.rec)

\* C6: an attempt whose 30 s timeout has fired is failed: syncSessions()
\* returns false and the attempt never clears the local store afterwards.
C6_TimedOutAttemptNeverClears ==
    /\ last.kind = "timeout" => last.returned = "false"
    /\ ~(last.kind = "settle" /\ last.timedOut /\ last.cleared)

\* C7: after an attempt whose session upload succeeded the whole local store
\* is empty, sessions and GPS tracks alike.
C7_StoreEmptyAfterUpload ==
    (last.kind = "settle" /\ last.upRes = "ok") =>
        localSessions = {} /\ localGps = {}

\* A step of the inner function that ends with the filter finding no
\* unsynced session.
TrivialSyncStep ==
    \E a \in Attempts :
        /\ att[a].pc \in {"getAll", "getGps"}
        /\ last'.kind = "settle" /\ last'.a = a

\* C8: an attempt that finds no unsynced session in the local store makes
\* syncSessions() return true, has issued no remote call, and the step leaves
\* the local store and the remote tables as they were.
C8_NothingToSync ==
    /\ [] ( (last.kind = "settle" /\ UnsyncedSessions(last.rec.all) = << >>) =>
              /\ last.returned = "true"
              /\ last.upRes = "none" /\ last.gpsRes = "none"
              /\ last.rec.uploaded = << >> )
    /\ [][ TrivialSyncStep =>
              UNCHANGED << localSessions, localGps, remoteSessions, remoteGps >>
         ]_vars

\* C8 witness: while online, a call has just returned true on an empty
\* unsyncedSessions.
C8_Witness ==
    /\ isOnline
    /\ last.kind = "settle" /\ UnsyncedSessions(last.rec.all) = << >>
    /\ last.returned = "true"

\* C9: every syncSessions() call that set the status to Syncing returns and
\* sets it back to Idle, whatever the outcome of the attempt: no call waits
\* for ever and the status never stays Syncing for ever.
C9_SyncingReturnsToIdle ==
    /\ \A a \in Attempts : InFlight(att[a]) ~> ~InFlight(att[a])
    /\ isSyncing ~> ~isSyncing

\* C9 witness: a call has just returned on its timeout, its remote answer
\* still outstanding, and the status is Idle.
C9_Witness ==
    /\ last.kind = "timeout"
    /\ InnerRunning(att[last.a])
    /\ ~isSyncing

\* The effects have just run and the auto-sync effect has started a call.
AutoSyncStarted ==
    /\ last.kind = "effects"
    /\ \E a \in Attempts : att[a].by = "autoSync" /\ InFlight(att[a])

\* A step in which the inner function of some call issues a remote insert.
IssuesRemoteCall ==
    \E a \in Attempts : att'[a].pc \in RemotePcs /\ att'[a].pc # att[a].pc

\* A step in which a syncSessions() call passes the isOnline test.
StartsAttempt ==
    \E a \in Attempts : ~InnerRunning(att[a]) /\ InnerRunning(att'[a])

\* C10 as stated: every change of connectivity from Offline to Online is
\* followed by an automatic sync attempt, and no remote call is issued while
\* connectivity is Offline.
C10_AutoSyncAndNoRemoteCallOffline ==
    /\ (isOnline /\ renderedOnline = "no") ~> AutoSyncStarted
    /\ [][ IssuesRemoteCall => isOnline ]_vars

\* C10 amended: a change to Online that is still in force when React commits
\* it is followed by an automatic sync attempt, and a call only passes the
\* isOnline test from a render in which isOnline is true; the attempt is not
\* stopped when connectivity drops afterwards.
C10_AutoSyncOnCommit ==
    /\ (isOnline /\ renderedOnline = "no") ~> (~isOnline \/ AutoSyncStarted)
    /\ [][ StartsAttempt =>
             \/ last'.kind = "effects" /\ isOnline
             \/ hf.pc = "saving" /\ hf.online ]_vars

\* C10 witness: the commit of a change from Offline to Online has just run
\* the effects and the auto-sync call is in flight.
C10_Witness ==
    /\ AutoSyncStarted
    /\ last.from = "no"

\* A session stamped d is in the local store / in the remote table.
StoredLocally(d) == \E s \in localSessions : s.date = d

StoredRemotely(d) == \E i \in DOMAIN remoteSessions : remoteSessions[i].date = d

\* The step just taken was a remote call failing or a call timing out.
RemoteFailure ==
    \/ last.kind = "timeout"
    \/ last.kind = "settle" /\ last.upRes \in {"error", "throw"}
    \/ last.kind = "settle" /\ last.gpsRes \in {"error", "throw"}

\* C11: synchronization is eventual: if connectivity is eventually online for
\* good, remote calls eventually stop failing and every remote call is
\* answered, then every session written to the local store by saveSession is
\* eventually in the remote table workout_sessions.
C11_EventuallySynced ==
    ( /\ <>[]isOnline
      /\ <>[]~RemoteFailure
      /\ \A a \in Attempts : []<>(att[a].pc \notin RemotePcs) )
    => \A d \in 1..MaxWorkouts : StoredLocally(d) ~> StoredRemotely(d)

----------------------------------------------------------------------------
\* Claims about lib/storage

\* The ids of a set of session records.
Ids(sessions) == { s.id : s \in sessions }

\* C12: saveSession with a non-empty gpsPoints list is atomic across the two
\* stores: when it resolves, exactly one session record and exactly one GPS
\* record, keyed by the returned id, have been added; when any write fails,
\* the GPS write after the session write included, both stores are as they
\* were before the call.
C12_SaveSessionAtomic ==
    (ret.op = "save" /\ HasPoints(ret.points)) =>
        \/ /\ ret.result = "resolved"
           /\ ret.sessionsBefore \subseteq localSessions
           /\ ret.gpsBefore \subseteq localGps
           /\ Cardinality(localSessions \ ret.sessionsBefore) = 1
           /\ Cardinality(localGps \ ret.gpsBefore) = 1
           /\ \A s \in localSessions \ ret.sessionsBefore :
                 s.id = TheValue(ret.value)
           /\ \A g \in localGps \ ret.gpsBefore :
                 /\ g.sessionId = TheValue(ret.value)
                 /\ g.points = TheValue(ret.points)
        \/ /\ ret.result = "rejected"
           /\ localSessions = ret.sessionsBefore
           /\ localGps = ret.gpsBefore

\* C12 witness: a saveSession with points has just failed at the GPS write,
\* after its session write, in a store that already held a session.
C12_Witness ==
    /\ ret.op = "save" /\ HasPoints(ret.points)
    /\ ret.failedAt = "addGps"
    /\ ret.sessionsBefore # {}

\* C13: a record written by saveSession is unsynced whatever the synced of
\* the input, has the distance of the input or 0 if it has none, is stored
\* under the returned id, which no earlier saveSession returned (cleared
\* sessions included), and is returned by getSessions and getUnsyncedSessions.
C13_SavedRecord ==
    (ret.op = "save" /\ ret.result = "resolved") =>
        LET id == TheValue(ret.value)
            input == TheValue(ret.session)
        IN /\ id \notin { r.id : r \in ret.savedBefore }
           /\ id \notin Ids(ret.sessionsBefore)
           /\ \E s \in localSessions :
                 /\ s.id = id
                 /\ \A u \in localSessions : u.id = id => u = s
                 /\ s.synced = 0
                 /\ s.date = input.date
                 /\ s.distance = IF input.distance = None THEN 0
                                 ELSE TheValue(input.distance)
                 /\ s \in Range(GetSessions(localSessions))
                 /\ s \in Range(GetUnsyncedSessions(localSessions))

\* C13 witness: after a clearSessions, a session given with synced = 1 and
\* without distance has just been saved, not the first one to be saved.
C13_Witness ==
    /\ ret.op = "save" /\ ret.result = "resolved"
    /\ TheValue(ret.session).synced = Some(1)
    /\ TheValue(ret.session).distance = None
    /\ ret.savedBefore # {}
    /\ ret.sessionsBefore = {}

\* C14: in every state of the local store, every GPS record belongs to a
\* stored session, no session has two GPS records, and a stored session that
\* was saved with points has its GPS record.
C14_GpsRecordsFollowSessions ==
    /\ \A g \in localGps : g.sessionId \in Ids(localSessions)
    /\ \A g, h \in localGps : g.sessionId = h.sessionId => g = h
    /\ \A r \in saved :
          (r.hadPoints /\ r.id \in Ids(localSessions)) =>
              \E g \in localGps : g.sessionId = r.id

\* C14 witness: a clearSessions has just failed between its two clears, in a
\* store that holds a GPS record and a session marked synced.
C14_Witness ==
    /\ ret.op = "clear" /\ ret.failedAt = "clearGps"
    /\ localGps # {}
    /\ \E s \in localSessions : s.synced = 1

\* C15: after markSessionsSynced(ids) resolves, getUnsyncedSessions returns
\* no session of ids; only the synced flag of the listed sessions that exist
\* has changed (no record added or removed, unknown ids ignored); a call that
\* fails changes nothing; and a call whose listed sessions are all synced
\* already changes nothing.
C15_MarkSessionsSynced ==
    (ret.op = "mark") =>
        \/ /\ ret.result = "resolved"
           /\ \A i \in DOMAIN GetUnsyncedSessions(localSessions) :
                 GetUnsyncedSessions(localSessions)[i].id \notin Range(ret.ids)
           /\ localSessions =
                 { [s EXCEPT !.synced = IF s.id \in Range(ret.ids) THEN 1 ELSE @] :
                      s \in ret.sessionsBefore }
           /\ localGps = ret.gpsBefore
           /\ (\A s \in ret.sessionsBefore : s.id \in Range(ret.ids) => s.synced = 1)
                 => localSessions = ret.sessionsBefore
        \/ /\ ret.result = "rejected"
           /\ localSessions = ret.sessionsBefore
           /\ localGps = ret.gpsBefore

\* C15 witness: markSessionsSynced has just resolved for a list of a stored
\* unsynced session and an unknown id, another unsynced session being stored.
C15_Witness ==
    /\ ret.op = "mark" /\ ret.result = "resolved"
    /\ \E s \in ret.sessionsBefore : s.id \in Range(ret.ids) /\ s.synced = 0
    /\ \E i \in DOMAIN ret.ids : ret.ids[i] \notin Ids(ret.sessionsBefore)
    /\ \E s \in localSessions : s.id \notin Range(ret.ids) /\ s.synced = 0

\* A step keeps the synced flag of every session that stays stored, except
\* that a markSessionsSynced that lists a session may set it; a session that
\* enters the store is unsynced and has an id no session had before.
SyncStateStep ==
    /\ \A s \in localSessions : \A u \in localSessions' :
          s.id = u.id =>
              \/ u.synced = s.synced
              \/ /\ s.synced = 0 /\ u.synced = 1
                 /\ tx.op = "mark" /\ s.id \in Range(tx.ids)
    /\ \A u \in localSessions' :
          u.id \notin Ids(localSessions) =>
              u.synced = 0 /\ u.id \notin { r.id : r \in saved }

C17_SaveFailurePropagates ==
    (ret.op = "save" /\ ret.failedAt # "none") =>
        /\ ret.result = "rejected"
        /\ ret.value = None
        /\ saved = ret.savedBefore
        /\ localSessions = ret.sessionsBefore
        /\ localGps = ret.gpsBefore
        /\ nextId \notin Ids(localSessions)

\* C17 witness: a saveSession without points has just failed at its commit,
\* after its session write.
C17_Witness ==
    /\ ret.op = "save" /\ ~HasPoints(ret.points)
    /\ ret.failedAt = "done"
    /\ ret.result = "rejected"

----------------------------------------------------------------------------
\* Claims about GPSTracker

\* C18: stopTracking called before any fix has arrived, whether the tracker
\* was never started, is waiting for its first fix or has failed to start,
\* returns a track with no points, distance 0, pace 0 and speed 0, and leaves
\* the tracker not tracking and without a location subscription.
C18_StopBeforeAnyFix ==
    (tlast.op = "stop" /\ tlast.fixes = 0) =>
        /\ tlast.track.points = << >>
        /\ tlast.track.totalDistance = 0
        /\ tlast.track.averagePace.num = 0
        /\ tlast.track.maxSpeed.num = 0
        /\ ~isTracking
        /\ watchId = 0
        /\ geolocation.watches = {}

\* C18 witness: stopTracking has just returned on a tracker that was tracking
\* and whose start had failed on an error before any fix.
C18_Witness ==
    /\ tlast.op = "stop" /\ tlast.fixes = 0
    /\ tlast.wasTracking
    /\ \E w \in 1..MaxStarts : geolocation.started[w] = "rejected"

\* C19: a stopTracking called after stopTracking has returned, with no
\* startTracking in between, returns an empty track: no points, distance 0.
C19_SecondStopReturnsEmpty ==
    (tlast.op = "stop" /\ tlast.wasStopped) =>
        /\ tlast.track.points = << >>
        /\ tlast.track.totalDistance = 0

\* C20: startTracking on a tracker that is tracking resolves and leaves the
\* points, the subscription and the flag as they are, and a tracker never has
\* more than one location subscription.
C20_StartIdempotent ==
    /\ [](Cardinality(geolocation.watches) <= 1)
    /\ [][ (isTracking /\ tlast'.op = "start") =>
              /\ tlast'.outcome = "resolved"
              /\ UNCHANGED << points, watchId, isTracking, geolocation >>
         ]_vars

\* C20 witness: startTracking has just resolved on a tracker that was
\* tracking and holds points.
C20_Witness ==
    /\ tlast.op = "start" /\ tlast.outcome = "resolved"
    /\ tlast.wasTracking
    /\ Len(points) > 0
    /\ geolocation.watches = {watchId}

\* C21: the promise of the startTracking() call that opened a subscription is
\* settled by the first event delivered to that subscription: it is
\* resolved exactly when the first event was a fix and rejected exactly when
\* it was an error; an error delivered when at least one point is recorded
\* changes neither the promise nor the points nor the subscription, and a fix
\* delivered to a subscription after an error is still appended.
C21_FirstEventDecidesStart ==
    [][ /\ \A w \in 1..MaxStarts :
              /\ geolocation'.started[w] = "resolved"
                    <=> geolocation'.first[w] = "fix"
              /\ geolocation'.started[w] = "rejected"
                    <=> geolocation'.first[w] = "error"
        /\ (tlast'.op = "error" /\ Len(points) >= 1) =>
              /\ points' = points
              /\ geolocation'.started = geolocation.started
              /\ geolocation'.watches = geolocation.watches
              /\ isTracking' = isTracking
        /\ (tlast'.op = "position" /\ tlast'.watch \in geolocation.errors) =>
              points' = Append(points, tlast'.point) ]_vars

\* A fix was appended after an error that followed the first fix, the
\* promise being resolved.
C21_Witness ==
    /\ tlast.op = "position"
    /\ tlast.watch \in geolocation.errors
    /\ geolocation.first[tlast.watch] = "fix"
    /\ geolocation.started[tlast.watch] = "resolved"
    /\ Len(points) >= 2

RECURSIVE PairwiseSum(_)
\* The sum of the distances between consecutive fixes of a track.
PairwiseSum(track) ==
    IF Len(track) < 2 THEN 0
    ELSE PairwiseSum(SubSeq(track, 1, Len(track) - 1))
           + Abs(track[Len(track)].longitude
                   - track[Len(track) - 1].longitude)

\* C22: a delivered fix is appended to the end of the points, once, and a
\* registered observer is called once for it, with the fix and the sum of the
\* distances between consecutive points, the new one included; the distance
\* the observer is told is never less than the one it was told before since
\* the subscription was opened.
C22_FixAppendedAndReported ==
    [][ tlast'.op = "position" =>
          /\ points' = Append(points, tlast'.point)
          /\ tlast'.delivered = Append(tlast.delivered, tlast'.point)
          /\ onUpdate =>
               /\ tlast'.observer =
                    << [ point |-> tlast'.point,
                         totalDistance |-> PairwiseSum(points') ] >>
               /\ tlast'.observer[1].totalDistance >= tlast.lastReported ]_vars

\* The observer was told of a third fix that lies back where the first one
\* was: the distance is that of the way there and back.
C22_Witness ==
    /\ tlast.op = "position"
    /\ onUpdate
    /\ Len(points) = 3
    /\ points[3].longitude = points[1].longitude
    /\ tlast.observer[1].totalDistance = 2

\* A quotient that is a number (no division by zero) and is not negative.
NonNegative(r) == r.den # 0 /\ r.num * r.den >= 0

\* C23: for every sequence of fixes, the totalDistance, averagePace and
\* maxSpeed of the track stopTracking returns, and the pace getCurrentPace
\* returns, are not negative and are not the result of a division by zero.
C23_MetricsNeverNegative ==
    /\ tlast.op = "stop" =>
          /\ tlast.track.totalDistance >= 0
          /\ NonNegative(tlast.track.averagePace)
          /\ NonNegative(tlast.track.maxSpeed)
    /\ tlast.op = "getCurrentPace" => NonNegative(tlast.value)

\* The speeds of the consecutive pairs of a track with positive elapsed time.
TimedPairs(track) ==
    { i \in 2..Len(track) : track[i].timestamp - track[i - 1].timestamp > 0 }

\* Kilometres per hour of pair i, as a quotient.
PairSpeed(track, i) ==
    Ratio(3600 * Abs(track[i].longitude - track[i - 1].longitude),
          track[i].timestamp - track[i - 1].timestamp)

\* C24: maxSpeed is the largest speed (distance over time) of the consecutive
\* pairs of fixes with positive elapsed time, and 0 when there is no such
\* pair, which includes tracks of fewer than two fixes; pairs without
\* elapsed time do not count.
C24_MaxSpeedOverTimedPairs ==
    tlast.op = "stop" =>
      LET track == tlast.track.points
          maxSpeed == tlast.track.maxSpeed
      IN IF TimedPairs(track) = {}
         THEN maxSpeed.num = 0
         ELSE /\ maxSpeed.den > 0
              /\ \E i \in TimedPairs(track) :
                    maxSpeed.num * PairSpeed(track, i).den
                      = PairSpeed(track, i).num * maxSpeed.den
              /\ \A j \in TimedPairs(track) :
                    PairSpeed(track, j).num * maxSpeed.den
                      <= maxSpeed.num * PairSpeed(track, j).den

\* A stopped track with a pair that moved in no time, and whose fastest timed
\* pair is not its last one.
C24_Witness ==
    /\ tlast.op = "stop"
    /\ tlast.track.maxSpeed.num > 0
    /\ \E i \in 2..Len(points) :
          /\ points[i].timestamp = points[i - 1].timestamp
          /\ points[i].longitude # points[i - 1].longitude
    /\ \E j \in TimedPairs(points) :
          /\ PairSpeed(points, j).num = 0
          /\ \A k \in TimedPairs(points) : k <= j

\* C25: averagePace is the minutes between the first and the last fix of the
\* track over the kilometres of the pairwise-summed distance when that
\* distance is positive, and 0 when it is 0 or the track has fewer than two
\* fixes.  (Timestamps are milliseconds and distances metres: minutes over
\* kilometres is milliseconds over 60 times metres.)
C25_AveragePace ==
    tlast.op = "stop" =>
      LET track == tlast.track.points
          averagePace == tlast.track.averagePace
      IN IF Len(track) >= 2 /\ PairwiseSum(track) > 0
         THEN /\ averagePace.den # 0
              /\ averagePace.num * (60 * PairwiseSum(track))
                   = (track[Len(track)].timestamp - track[1].timestamp)
                       * averagePace.den
         ELSE averagePace.num = 0

\* A stopped track that took time and is longer than the way from its first
\* fix to its last one.
C25_Witness ==
    /\ tlast.op = "stop"
    /\ Len(points) >= 3
    /\ points[Len(points)].timestamp > points[1].timestamp
    /\ PairwiseSum(points) > Abs(points[Len(points)].longitude
                                   - points[1].longitude)
    /\ points[Len(points)].longitude # points[1].longitude
    /\ tlast.track.averagePace.num > 0

\* The last n fixes of a track, all of them if there are fewer.
LastFixes(track, n) ==
    [ i \in 1..(IF Len(track) < n THEN Len(track) ELSE n) |->
        track[Len(track) - (IF Len(track) < n THEN Len(track) ELSE n) + i] ]

\* C26: getCurrentPace depends on the last five fixes only: it returns what
\* it returns for the track of these five alone and for every track that has
\* one or two other fixes before them; it returns 0 for fewer than two
\* fixes.
C26_CurrentPaceUsesLastFive ==
    tlast.op = "getCurrentPace" =>
      /\ Len(points) < 2 => tlast.value = Zero
      /\ Len(points) >= PaceWindow =>
           /\ GetCurrentPace(LastFixes(points, PaceWindow)) = tlast.value
           /\ \A p \in GPSPoints :
                 GetCurrentPace(<< p >> \o LastFixes(points, PaceWindow))
                   = tlast.value
           /\ \A p, q \in GPSPoints :
                 GetCurrentPace(<< p, q >> \o LastFixes(points, PaceWindow))
                   = tlast.value

\* getCurrentPace returned a pace for a track of more than five fixes whose
\* first fix lies where its last one does, away from the first of the last
\* five.
C26_Witness ==
    /\ tlast.op = "getCurrentPace"
    /\ Len(points) > PaceWindow
    /\ tlast.value.num > 0
    /\ points[1].longitude = points[Len(points)].longitude
    /\ points[1].longitude # points[Len(points) - PaceWindow + 1].longitude

\* C27: getCurrentDistance, getCurrentPace and getPoints change neither the
\* points nor isTracking nor the subscription, whatever the state of the
\* tracker, and neither does a push onto the array that getPoints or
\* stopTracking returned.
C27_GettersReadOnly ==
    [][ tlast'.op \in {"getCurrentDistance", "getCurrentPace", "getPoints",
                       "push"} =>
          /\ points' = points
          /\ isTracking' = isTracking
          /\ watchId' = watchId
          /\ geolocation' = geolocation ]_vars

\* The caller pushed a point onto the array getPoints returned while the
\* tracker was tracking with points recorded.
C27_Witness ==
    /\ tlast.op = "push"
    /\ isTracking
    /\ Len(points) >= 1
    /\ Len(tlast.returned.items) = Len(points) + 1

\* C28: the track stopTracking returns holds the tracker's points at the
\* return, in order, and their pairwise distance; these are the fixes
\* delivered since the last startTracking that opened a subscription; and
\* once stopTracking has returned the points stay as they are until
\* startTracking is called.
C28_StopSummaryMatchesTrack ==
    [][ /\ tlast'.op = "stop" =>
              /\ tlast'.track.points = points'
              /\ tlast'.returned.items = points'
              /\ tlast'.track.totalDistance = PairwiseSum(points')
              /\ tlast'.track.points = tlast'.delivered
        /\ (tlast.stopped /\ tlast'.op # "start") => points' = points ]_vars

\* The second track of a tracker was stopped with fixes that lie apart.
C28_Witness ==
    /\ tlast.op = "stop"
    /\ geolocation.nextWatchId > 2
    /\ Len(points) >= 2
    /\ tlast.track.totalDistance > 0

\* C29: whatever the outcome of the GPS setup, the session TimerScreen hands
\* to saving has a distance that is not negative, and that is 0 when no track
\* was recorded for it, which is when the setup has not put a tracker in
\* gpsTrackerRef and the session has no GPS points.
C29_NoTrackNoDistance ==
    \A i \in 1..Len(saveCalls) :
        saveCalls[i].by = "timer" =>
          /\ saveCalls[i].sessionRecord.distance >= 0
          /\ saveCalls[i].gpsPoints = None =>
                saveCalls[i].sessionRecord.distance = 0

\* C30: every session handed to saveSession, by App.handleFinishWorkout for
\* a workout that was completed or stopped and by the GPS test panel, has
\* total_run_time + total_walk_time = total_duration.
C30_RunPlusWalkIsDuration ==
    \A i \in 1..Len(saveCalls) :
        saveCalls[i].sessionRecord.total_run_time
          + saveCalls[i].sessionRecord.total_walk_time
            = saveCalls[i].sessionRecord.total_duration


----------------------------------------------------------------------------
\* Claims about the hook and the App, continued

\* C31: a session that is in the local store is removed by sync only if the
\* remote store acknowledged it: whatever saveSession writes while a
\* syncSessions() call is running, every session a step takes out of the local
\* store is then in the remote table workout_sessions.
C31_RemovedOnlyIfUploaded ==
    [][ \A s \in localSessions :
            s \notin localSessions' => StoredRemotely(s.date)' ]_vars

\* The GPS insert of call a is answered with rows inserted.
GpsInserted(a) ==
    /\ att[a].pc = "gpsUpload"
    /\ att'[a].pc = "clear" /\ att'[a].gpsRes = "ok"

\* The uploaded sessions of the batch of r, by position, that had a GPS track
\* in the local store when r read it.
WithTrack(r) ==
    { i \in DOMAIN r.uploaded :
        \E t \in GpsRead(r) : t.sessionId = UnsyncedSessions(r.all)[i].id }

\* C32: every GPS track record in the remote table gps_tracks is keyed by the
\* remote id of the row of the very session its points belong to, and a GPS
\* insert that is answered stores a record exactly for the uploaded sessions
\* of its batch that had a GPS track in the local store; the GPS insert is
\* issued if and only if there is such a session.
C32_GpsKeyedByRemoteSession ==
    /\ [] ( \A g \in remoteGps :
              /\ g.session_id \in DOMAIN remoteSessions
              /\ remoteSessions[g.session_id].date = g.points )
    /\ [][ \A a \in Attempts :
             /\ GpsInserted(a) =>
                  /\ \A i \in DOMAIN att[a].uploaded :
                       (\E g \in remoteGps' \ remoteGps :
                           g.session_id = att[a].uploaded[i])
                         <=> i \in WithTrack(att[a])
                  /\ \A g \in remoteGps' \ remoteGps :
                       \E i \in DOMAIN att[a].uploaded :
                           g.session_id = att[a].uploaded[i]
             /\ (att[a].pc = "upload" /\ att'[a].pc \in {"gpsUpload", "clear"}) =>
                  (att'[a].pc = "gpsUpload" <=> WithTrack(att'[a]) # {})
         ]_vars

\* C32 witness: a call has uploaded a batch of two sessions of which exactly
\* one had a GPS track, and its GPS insert was answered.
C32_Witness ==
    \E a \in Attempts :
        /\ att[a].pc = "clear" /\ att[a].gpsRes = "ok"
        /\ Len(att[a].uploaded) = 2
        /\ Cardinality(WithTrack(att[a])) = 1
        /\ \E g \in remoteGps : g.session_id \in Range(att[a].uploaded)

\* The inner function of r has read the sessions of the local store and has
\* not ended: it may still upload or clear the local store.
InProgress(r) == r.pc \in {"getGps", "upload", "gpsUpload", "clear"}

\* C33: the exposed sync status is accurate: isSyncing is true whenever some
\* sync attempt is in progress, also when several calls overlap and after a
\* call has returned on its timeout.
C33_SyncingWhileAttemptRuns ==
    (\E a \in Attempts : InProgress(att[a])) => isSyncing

\* C38: syncSessions() invoked while connectivity is Offline returns false at
\* once: in no step taken while isOnline is false, and rendered as false, does
\* a call pass the isOnline test (after which it reads the local store and
\* contacts the remote store) or set the status to Syncing.
C38_OfflineCallDoesNothing ==
    [][ (~isOnline /\ renderedOnline = "no") =>
            /\ ~StartsAttempt
            /\ ~(~isSyncing /\ isSyncing') ]_vars

----------------------------------------------------------------------------
\* Claims about GPSTracker and TimerScreen, continued

\* C34: after startTracking() has been rejected by a location error that
\* arrived before any fix, the tracker is not left tracking: the subscription
\* of the failed start is not open (so no later fix of it is appended) and
\* isTracking is false (so the next startTracking() opens a new subscription).
C34_FailedStartNotTracking ==
    \A w \in 1..MaxStarts :
        geolocation.started[w] = "rejected" =>
            /\ w \notin geolocation.watches
            /\ watchId = w => ~isTracking

\* A step of TimerScreen keeps the phase, or takes it to the next one of the
\* cycle countdown, run, walk, countdown; the round goes up by one when a walk
\* phase ends and is kept otherwise.
PhaseStep ==
    /\ \/ timer'.currentPhase = timer.currentPhase
       \/ timer.currentPhase = "countdown" /\ timer'.currentPhase = "run"
       \/ timer.currentPhase = "run" /\ timer'.currentPhase = "walk"
       \/ timer.currentPhase = "walk" /\ timer'.currentPhase = "countdown"
    /\ timer'.currentRound =
         IF timer.currentPhase = "walk" /\ timer'.currentPhase # "walk"
         THEN timer.currentRound + 1 ELSE timer.currentRound

\* The run phase of the step's round elapses: its time runs out while the
\* timer is running, or the timer is resumed with no time left.
RunPhaseElapses ==
    /\ timer.currentPhase = "run"
    /\ timer'.isRunning /\ timer'.timeLeft = 0
    /\ ~(timer.isRunning /\ timer.timeLeft = 0)

\* A step in which the timer hands a session to onFinish on its own: a step
\* of stopWorkout leaves the state of TimerScreen as it is.
FinishesOnItsOwn == saveCalls' # saveCalls /\ timer' # timer

\* C36: the phases follow the cycle countdown, run, walk, countdown; the
\* round starts at 1 and goes up by exactly 1 when a walk phase ends; a
\* workout of N rounds finishes when the run phase of round N elapses, is
\* never in a walk phase in round N or in a round after N; a workout in free
\* mode never finishes on its own.
C36_PhaseCycleAndRounds ==
    /\ [] ( /\ timer.currentRound >= 1
            /\ ~timer.isFreeRounds =>
                 /\ timer.currentRound <= timer.config.rounds
                 /\ ~(timer.currentPhase = "walk"
                        /\ timer.currentRound = timer.config.rounds) )
    /\ [][ /\ PhaseStep
           /\ timer.isFreeRounds => ~FinishesOnItsOwn
           /\ (~timer.isFreeRounds /\ saveCalls = << >>) =>
                 ( FinishesOnItsOwn <=>
                     /\ RunPhaseElapses
                     /\ timer.currentRound = timer.config.rounds )
         ]_vars

\* C36 witness: a workout of two rounds has gone through the walk phase of
\* round 1 and has finished on its own at the end of the run phase of round 2.
C36_Witness ==
    /\ timer.config.rounds = 2
    /\ timer.currentRound = 2 /\ timer.currentPhase = "run"
    /\ timer.timeLeft = 0 /\ timer.isRunning
    /\ timer.walkTimeSpent > 0
    /\ Len(saveCalls) = 1

\* C35: each workout yields exactly one saved session: once onFinish has been
\* called, no tick, press of the pause or skip button, change of visibility
\* or re-render of the App makes TimerScreen call it again before the finish
\* screen replaces the timer.
C35_OneFinishPerWorkout ==
    [][ (saveCalls # << >> /\ timer' # timer) => saveCalls' = saveCalls ]_vars

\* C37: the tracked time is the elapsed time: whatever ticks, pauses, skips
\* and changes of visibility came before, the total_duration of every session
\* handed to saveSession, which is runTimeSpent + walkTimeSpent, equals
\* totalElapsed, the seconds elapsed in run and walk phases.
C37_DurationIsElapsed ==
    [][ \A i \in (Len(saveCalls) + 1)..Len(saveCalls') :
            saveCalls'[i].sessionRecord.total_duration = timer'.totalElapsed
      ]_vars

====
